---- MODULE Spec2Model ----
(***************************************************************************)
(* A model of abyss-base: a file-backed store of typed tables whose rows   *)
(* live in shard files addressed by a truncated SHA-256 of the id value.   *)
(* The file system under the database root is the state; every public      *)
(* operation of DATABASE is one action.                                    *)
(***************************************************************************)
EXTENDS Integers, Sequences, FiniteSets, TLC

VARIABLES
    schemas,    \* table name -> the content of <root>/<table>-type.txt
    dirs,       \* table name -> the directory <root>/<table> and its shard files
    last,       \* the last call made on the handle: its arguments and its outcome
    migrations, \* the .json files of <root>/migrations, in the order of their names
    applied,    \* the file names listed in <root>/migrations/.migrations_applied
    executed,   \* migration file -> how many times its operation has completed
    settled,    \* apply_migrations has returned Ok and no file was added since
    writers     \* writer -> the add_row call it is in the middle of

migvars == <<migrations, applied, executed, settled>>
vars == <<schemas, dirs, last, migvars, writers>>

-----------------------------------------------------------------------------
(* Bounds of the model.                                                    *)

\* NUMBER payloads are drawn from 0..MaxNum.
MaxNum == 1

-----------------------------------------------------------------------------
(* Values (make.rs).                                                       *)

\* Data::STRING(s)
DataString(s) == [tag |-> "STRING", s |-> s, n |-> 0]
\* Data::NUMBER(n)
DataNumber(n) == [tag |-> "NUMBER", s |-> "", n |-> n]
\* Data::BOOLEAN(b), the payload kept as 0 / 1
DataBoolean(b) == [tag |-> "BOOLEAN", s |-> "", n |-> b]

\* data_eq_type: the tag of the value is the declared type tag.
data_eq_type(x, y) == x.tag = y

\* f64::to_string on the integral values the model draws.
f64_to_string(n) == ToString(n)

\* Data::get_string: STRING and NUMBER have a string form, every other variant
\* panics. The result says which.
get_string(d) ==
    CASE d.tag = "STRING" -> [panic |-> FALSE, s |-> d.s]
      [] d.tag = "NUMBER" -> [panic |-> FALSE, s |-> f64_to_string(d.n)]
      [] OTHER -> [panic |-> TRUE, s |-> ""]

\* A map with no entry (HashMap::new()).
EmptyMap == [k \in {} |-> 0]

\* HashMap::insert and HashMap::remove.
MapInsert(m, k, v) == [x \in DOMAIN m \cup {k} |-> IF x = k THEN v ELSE m[x]]
MapRemove(m, k) == [x \in DOMAIN m \ {k} |-> m[x]]

-----------------------------------------------------------------------------
(* Shard addressing (c.rs, r.rs, d.rs).                                    *)

\* The first four bytes of SHA-256(input) as a big-endian number of two
\* 16-bit limbs <<high, low>>, for the id strings of the model (the values
\* are those of the real hash function; u58659 and u67268 collide).
Sha256First4(input) ==
    CASE input = "u58659" -> <<14171, 6081>>
      [] input = "u67268" -> <<14171, 6081>>
      [] input = "u208"   -> <<14116, 52475>>
      [] input = "u674"   -> <<2, 58183>>
      [] input = "v1"     -> <<15356, 9877>>
      [] input = "0"      -> <<24556, 60262>>
      [] input = "1"      -> <<27526, 45683>>
      [] input = "3"      -> <<19975, 16517>>
      [] input = "s"      -> <<1082, 29063>>
      [] input = "alice"  -> <<11224, 1737>>
      [] input = "bob"    -> <<33206, 14296>>
      [] input = "928716737" -> <<8956, 39647>>
      [] input = "925158651" -> <<36326, 56341>>
      [] input = "189255" -> <<45780, 53244>>

\* One step of the conversion to decimal: a two-limb number divided by ten,
\* as <<quotient, remainder>>.
DivRem10(n) ==
    LET t == (n[1] % 10) * 65536 + n[2]
    IN  <<(<<n[1] \div 10, t \div 10>>), t % 10>>

\* BigUint::to_str_radix(10): the decimal digits, most significant first.
RECURSIVE to_str_radix10(_)
to_str_radix10(n) ==
    IF n[1] = 0 /\ n[2] < 10 THEN <<n[2]>>
    ELSE LET d == DivRem10(n) IN Append(to_str_radix10(d[1]), d[2])

\* DATABASE::string_to_numerical_uuid (c.rs): the four-byte truncation.
string_to_numerical_uuid(input) == to_str_radix10(Sha256First4(input))

\* usize::saturating_sub
saturating_sub(a, b) == IF a > b THEN a - b ELSE 0

ShardWidth == 7
Zeros7 == [i \in 1..ShardWidth |-> 0]
Nines7 == [i \in 1..ShardWidth |-> 9]

\* A writer that cuts seven digits only from an id that has more than seven.
get_shard_range_short(id) ==
    LET base == IF Len(id) > ShardWidth THEN SubSeq(id, 1, Len(id) - ShardWidth) ELSE id
    IN  <<base \o Zeros7, base \o Nines7>>

\* get_shard_range_ (c.rs), used by add_row and add_rows.
get_shard_range_(id) ==
    LET base == SubSeq(id, 1, saturating_sub(Len(id), ShardWidth))
    IN  <<base \o Zeros7, base \o Nines7>>

\* A reader that cuts six digits instead of seven: it looks for the shard
\* file under a name the writer never used.
get_shard_range_six(id) ==
    LET base == SubSeq(id, 1, saturating_sub(Len(id), 6))
    IN  <<base \o Zeros7, base \o Nines7>>

\* get_shard_range (r.rs), used by get_by_id.
get_shard_range(id) ==
    LET base == SubSeq(id, 1, saturating_sub(Len(id), ShardWidth))
    IN  <<base \o Zeros7, base \o Nines7>>

\* String::pop applied k times.
RECURSIVE PopN(_, _)
PopN(s, k) ==
    IF k = 0 \/ Len(s) = 0 THEN s ELSE PopN(SubSeq(s, 1, Len(s) - 1), k - 1)

\* A deleter that pops six digits instead of seven.
get_file_by_id_six(id) ==
    <<PopN(id, 6) \o Zeros7, PopN(id, 6) \o Nines7>>

\* get_file_by_id (d.rs), used by the delete and update paths.
get_file_by_id(id) ==
    <<PopN(id, ShardWidth) \o Zeros7, PopN(id, ShardWidth) \o Nines7>>

-----------------------------------------------------------------------------
(* Files.                                                                  *)

\* A shard file's text: either the JSON of a map from id string to row, or
\* text that serde_json cannot read back as such a map.
to_string(map) == [ok |-> TRUE, map |-> map]
\* Text written by anything but the store itself.
Unparseable == [ok |-> FALSE, map |-> EmptyMap]
\* serde_json::from_str: Ok(map) or Err.
from_str(content) ==
    IF content.ok THEN [ok |-> TRUE, map |-> content.map]
    ELSE [ok |-> FALSE, map |-> EmptyMap]

\* A directory: whether it exists, and its files by name.
NoDir == [exists |-> FALSE, files |-> EmptyMap]
\* A schema file: whether it exists, and the TABLE it holds.
NoSchema ==
    [exists |-> FALSE, name |-> "", id_column |-> "", field_names |-> EmptyMap]

\* Path::exists for <root>/<table>/<filename>
file_exists(D, t, f) == D[t].exists /\ f \in DOMAIN D[t].files

\* fs::write to <root>/<table>/<filename>; the directory is there.
fs_write(D, t, f, content) ==
    [D EXCEPT ![t] = [exists |-> TRUE, files |-> MapInsert(D[t].files, f, content)]]

\* fs::create_dir_all(<root>/<table>)
create_dir_all(D, t) == [D EXCEPT ![t].exists = TRUE]

-----------------------------------------------------------------------------
(* Schema validation (c.rs).                                               *)

\* Regex::is_match for the patterns the model's schemas carry. "^u" matches
\* the strings that start with the letter u.
StartsWithU == {"u58659", "u67268", "u208", "u674"}
re_is_match(pattern, s) ==
    CASE pattern = "^u" -> s \in StartsWithU
      [] OTHER -> TRUE

\* Regex::from_str: whether the pattern compiles. "(" is a group that is
\* never closed.
regex_from_str(pattern) == pattern # "("

\* The body of check_type_regex's loop for one schema field: "err" when the
\* row lacks the field or a non-empty pattern does not compile, "false" on a
\* tag or pattern mismatch, "true" otherwise.
check_field(row, types, field_name) ==
    LET expected_type == types.field_names[field_name][1]
        regex_str == types.field_names[field_name][2]
    IN  IF field_name \notin DOMAIN row THEN "err"
        ELSE IF ~data_eq_type(row[field_name][1], expected_type) THEN "false"
        ELSE IF regex_str # "" /\ ~regex_from_str(regex_str) THEN "err"
        ELSE IF regex_str # "" /\ row[field_name][1].tag = "STRING"
                /\ ~re_is_match(regex_str, row[field_name][1].s) THEN "false"
        ELSE "true"

\* DATABASE::check_type_regex with the schema's HashMap yielding its fields in
\* the order given: the first field that does not pass ends the loop.
RECURSIVE check_type_regex_in(_, _, _, _)
check_type_regex_in(row, types, fields, i) ==
    IF Cardinality(DOMAIN row) # Cardinality(DOMAIN types.field_names) THEN "false"
    ELSE IF i > Len(fields) THEN "true"
    ELSE IF check_field(row, types, fields[i]) # "true"
    THEN check_field(row, types, fields[i])
    ELSE check_type_regex_in(row, types, fields, i + 1)

\* DATABASE::check_type_regex as its callers see it: Ok(true), or not. The
\* callers branch on Ok(true) alone, which the order of the loop cannot
\* change; which of Ok(false) and Err a refused row gets is left to
\* check_type_regex_in.
check_type_regex(row, types) ==
    LET bad == {f \in DOMAIN types.field_names : check_field(row, types, f) # "true"}
    IN  IF Cardinality(DOMAIN row) # Cardinality(DOMAIN types.field_names) THEN "false"
        ELSE IF bad = {} THEN "true"
        ELSE check_field(row, types, CHOOSE f \in bad : TRUE)

-----------------------------------------------------------------------------
(* Create (c.rs).                                                          *)

\* A writer that inserts without looking at the overwrite flag.
add_to_file_unconditional(D, t, f, row, id, overwrite) ==
    LET data == IF file_exists(D, t, f) THEN from_str(D[t].files[f]).map
                ELSE EmptyMap
    IN  [res |-> "ok", D |-> fs_write(D, t, f, to_string(MapInsert(data, id, row)))]

\* A writer that reports success on a present id but keeps the stored row.
add_to_file_keep(D, t, f, row, id, overwrite) ==
    LET data == IF file_exists(D, t, f) THEN from_str(D[t].files[f]).map
                ELSE EmptyMap
    IN  IF id \in DOMAIN data /\ ~overwrite
        THEN [res |-> "err", D |-> D]
        ELSE [res |-> "ok",
              D |-> fs_write(D, t, f, to_string(
                        IF id \in DOMAIN data THEN data ELSE MapInsert(data, id, row)))]

\* A writer that does not read the shard file before writing it.
add_to_file_fresh(D, t, f, row, id, overwrite) ==
    [res |-> "ok", D |-> fs_write(D, t, f, to_string(MapInsert(EmptyMap, id, row)))]

\* DATABASE::add_to_file: read the shard (an unreadable text counts as an
\* empty map), refuse a present id unless overwrite, insert, write the file.
add_to_file(D, t, f, row, id, overwrite) ==
    LET data == IF file_exists(D, t, f) THEN from_str(D[t].files[f]).map
                ELSE EmptyMap
    IN  IF id \in DOMAIN data /\ ~overwrite
        THEN [res |-> "err", D |-> D]
        ELSE [res |-> "ok", D |-> fs_write(D, t, f, to_string(MapInsert(data, id, row)))]

\* DATABASE::add_row
add_row(S, D, table_name, row, overwrite) ==
    IF ~S[table_name].exists THEN [res |-> "err", D |-> D]
    ELSE IF check_type_regex(row, S[table_name]) # "true" THEN [res |-> "err", D |-> D]
    ELSE IF S[table_name].id_column \notin DOMAIN row THEN [res |-> "err", D |-> D]
    ELSE LET raw == get_string(row[S[table_name].id_column][1])
             id == string_to_numerical_uuid(raw.s)
             filename == get_shard_range_(id)
         IN  IF raw.panic THEN [res |-> "panic", D |-> D]
             ELSE add_to_file(create_dir_all(D, table_name), table_name,
                              filename, row, id, overwrite)

\* A loop over the entries that keeps the row an id already has in the map.
RECURSIVE insert_entries_first(_, _, _, _)
insert_entries_first(map, entries, i, overwrite) ==
    IF i > Len(entries) THEN [ok |-> TRUE, map |-> map]
    ELSE IF ~overwrite /\ entries[i][1] \in DOMAIN map THEN [ok |-> FALSE, map |-> map]
    ELSE insert_entries_first(IF entries[i][1] \in DOMAIN map THEN map
                              ELSE MapInsert(map, entries[i][1], entries[i][2]),
                              entries, i + 1, overwrite)

\* The loop of add_many_to_file over the entries of one shard file: a
\* present id is refused unless overwrite, an earlier entry of the batch
\* counts as present.
RECURSIVE insert_entries(_, _, _, _)
insert_entries(map, entries, i, overwrite) ==
    IF i > Len(entries) THEN [ok |-> TRUE, map |-> map]
    ELSE IF ~overwrite /\ entries[i][1] \in DOMAIN map THEN [ok |-> FALSE, map |-> map]
    ELSE insert_entries(MapInsert(map, entries[i][1], entries[i][2]), entries, i + 1,
                        overwrite)

\* DATABASE::add_many_to_file: a file that cannot be parsed is an error; the
\* file is written once, after every entry went in.
add_many_to_file(D, t, f, entries, overwrite) ==
    LET deser == IF file_exists(D, t, f) THEN from_str(D[t].files[f])
                 ELSE [ok |-> TRUE, map |-> EmptyMap]
        filled == insert_entries(deser.map, entries, 1, overwrite)
    IN  IF ~deser.ok \/ ~filled.ok THEN [res |-> "err", D |-> D]
        ELSE [res |-> "ok", D |-> fs_write(D, t, f, to_string(filled.map))]

\* The order of the shard file names as Strings, which is the order BTreeMap
\* yields them in: digit by digit, the '-' after the start sorting before
\* every digit.
RECURSIVE str_less(_, _, _)
str_less(a, b, i) ==
    LET ca == IF i > Len(a) THEN -1 ELSE a[i]
        cb == IF i > Len(b) THEN -1 ELSE b[i]
    IN  IF i > Len(a) /\ i > Len(b) THEN FALSE
        ELSE IF ca # cb THEN ca < cb
        ELSE str_less(a, b, i + 1)

\* The shard files of a batch in BTreeMap order.
RECURSIVE shard_order(_)
shard_order(names) ==
    IF names = {} THEN <<>>
    ELSE LET least == CHOOSE f \in names :
                          \A g \in names \ {f} : str_less(f[1], g[1], 1)
         IN  <<least>> \o shard_order(names \ {least})

\* The loop of add_rows over the shard files: it stops at the first file that
\* refuses, with the files before it written. writes lists the files written,
\* one entry per fs::write.
RECURSIVE write_shards(_, _, _, _, _, _)
write_shards(D, t, shards, i, batch, overwrite) ==
    IF i > Len(shards) THEN [res |-> "ok", D |-> D, writes |-> <<>>]
    ELSE LET entries == SelectSeq(batch, LAMBDA e : e[3] = shards[i])
             r == add_many_to_file(D, t, shards[i], entries, overwrite)
             rest == write_shards(r.D, t, shards, i + 1, batch, overwrite)
         IN  IF r.res # "ok" THEN [res |-> r.res, D |-> r.D, writes |-> <<>>]
             ELSE [res |-> rest.res, D |-> rest.D, writes |-> <<shards[i]>> \o rest.writes]

\* DATABASE::add_rows: every row is validated and addressed before anything
\* is written; then one write per shard file.
add_rows(S, D, table_name, rows, overwrite) ==
    LET types == S[table_name]
        refused(row) == \/ check_type_regex(row, types) # "true"
                        \/ types.id_column \notin DOMAIN row
        panics(row) == ~refused(row) /\ get_string(row[types.id_column][1]).panic
        stops == {i \in 1..Len(rows) : refused(rows[i]) \/ panics(rows[i])}
        first == CHOOSE i \in stops : \A j \in stops : i <= j
        id(row) == string_to_numerical_uuid(get_string(row[types.id_column][1]).s)
        batch == [i \in 1..Len(rows) |->
                     <<id(rows[i]), rows[i], get_shard_range_(id(rows[i]))>>]
        names == {batch[i][3] : i \in 1..Len(rows)}
    IN  IF ~types.exists THEN [res |-> "err", D |-> D, writes |-> <<>>]
        ELSE IF stops # {}
        THEN [res |-> IF panics(rows[first]) THEN "panic" ELSE "err", D |-> D,
              writes |-> <<>>]
        ELSE write_shards(create_dir_all(D, table_name), table_name,
                          shard_order(names), 1, batch, overwrite)

\* add_row up to and including add_to_file's read of the shard file: what a
\* caller holds between fs::read_to_string and fs::write.
add_row_read(S, D, table_name, row) ==
    LET held(res, dir, id, f, data) ==
            [res |-> res, D |-> dir, id |-> id, filename |-> f, data |-> data]
        nothing == held("err", D, <<>>, <<>>, EmptyMap)
    IN  IF ~S[table_name].exists THEN nothing
        ELSE IF check_type_regex(row, S[table_name]) # "true" THEN nothing
        ELSE IF S[table_name].id_column \notin DOMAIN row THEN nothing
        ELSE LET raw == get_string(row[S[table_name].id_column][1])
                 id == string_to_numerical_uuid(raw.s)
                 filename == get_shard_range_(id)
                 made == create_dir_all(D, table_name)
             IN  IF raw.panic THEN held("panic", D, <<>>, <<>>, EmptyMap)
                 ELSE held("read", made, id, filename,
                           IF file_exists(made, table_name, filename)
                           THEN from_str(made[table_name].files[filename]).map
                           ELSE EmptyMap)

\* add_to_file from the conflict test on: the map the caller read, with its
\* row inserted, replaces the file whatever the file holds by now.
add_to_file_write(D, t, f, data, row, id, overwrite) ==
    IF id \in DOMAIN data /\ ~overwrite
    THEN [res |-> "err", D |-> D]
    ELSE [res |-> "ok", D |-> fs_write(D, t, f, to_string(MapInsert(data, id, row)))]

-----------------------------------------------------------------------------
(* Read (r.rs).                                                            *)

None == [some |-> FALSE, row |-> EmptyMap]
Some(row) == [some |-> TRUE, row |-> row]

\* DATABASE::get_by_id
get_by_id(D, table_name, id_input) ==
    LET id == string_to_numerical_uuid(id_input)
        filename == get_shard_range(id)
    IN  IF ~file_exists(D, table_name, filename) THEN None
        ELSE LET deser == from_str(D[table_name].files[filename])
             IN  IF ~deser.ok THEN None
                 ELSE IF id \in DOMAIN deser.map THEN Some(deser.map[id])
                 ELSE None

\* A get_all that gives up the whole table when one file cannot be parsed.
get_all_or_nothing(D, table_name) ==
    IF \E f \in DOMAIN D[table_name].files : ~from_str(D[table_name].files[f]).ok
    THEN EmptyMap
    ELSE LET ids == UNION {DOMAIN D[table_name].files[f].map :
                              f \in DOMAIN D[table_name].files}
         IN  [k \in ids |->
                LET f == CHOOSE g \in DOMAIN D[table_name].files :
                                k \in DOMAIN D[table_name].files[g].map
                IN  D[table_name].files[f].map[k]]

\* DATABASE::get_all: the rows of every readable shard file, by id.
get_all(D, table_name) ==
    LET readable == {f \in DOMAIN D[table_name].files :
                        from_str(D[table_name].files[f]).ok}
        ids == UNION {DOMAIN D[table_name].files[f].map : f \in readable}
    IN  [k \in ids |->
            LET f == CHOOSE g \in readable : k \in DOMAIN D[table_name].files[g].map
            IN  D[table_name].files[f].map[k]]

-----------------------------------------------------------------------------
(* Delete (d.rs).                                                          *)

\* A delete that returns the row but does not write the file back.
delete_row_by_id_unwritten(D, tablename, id_) ==
    LET id == string_to_numerical_uuid(id_)
        filename == get_file_by_id(id)
    IN  IF ~file_exists(D, tablename, filename) THEN [got |-> None, D |-> D]
        ELSE LET deser == from_str(D[tablename].files[filename])
             IN  IF deser.ok /\ id \in DOMAIN deser.map
                 THEN [got |-> Some(deser.map[id]), D |-> D]
                 ELSE [got |-> None, D |-> D]

\* DATABASE::delete_row_by_id: the removed row, and the file rewritten only
\* when a row was removed.
delete_row_by_id(D, tablename, id_) ==
    LET id == string_to_numerical_uuid(id_)
        filename == get_file_by_id(id)
    IN  IF ~file_exists(D, tablename, filename) THEN [got |-> None, D |-> D]
        ELSE LET deser == from_str(D[tablename].files[filename])
             IN  IF ~deser.ok THEN [got |-> None, D |-> D]
                 ELSE IF id \in DOMAIN deser.map
                 THEN [got |-> Some(deser.map[id]),
                       D |-> fs_write(D, tablename, filename,
                                      to_string(MapRemove(deser.map, id)))]
                 ELSE [got |-> None, D |-> D]

-----------------------------------------------------------------------------
(* Tables (make.rs).                                                       *)

\* The seed shard file create_table writes.
SeedFile == <<[i \in 1..24 |-> 0], [i \in 1..21 |-> 0] \o <<9, 9, 9>>>>

\* A create_table that does not look whether the directory exists.
create_table_again(S, D, fields, id_field, name) ==
    IF id_field \notin DOMAIN fields THEN [res |-> "err", S |-> S, D |-> D]
    ELSE [res |-> "ok",
          S |-> [S EXCEPT ![name] = [exists |-> TRUE, name |-> name,
                                     id_column |-> id_field, field_names |-> fields]],
          D |-> fs_write(D, name, SeedFile, to_string(EmptyMap))]

\* DATABASE::create_table
create_table(S, D, fields, id_field, name) ==
    IF id_field \notin DOMAIN fields THEN [res |-> "err", S |-> S, D |-> D]
    ELSE IF D[name].exists THEN [res |-> "err", S |-> S, D |-> D]
    ELSE [res |-> "ok",
          S |-> [S EXCEPT ![name] = [exists |-> TRUE, name |-> name,
                                     id_column |-> id_field, field_names |-> fields]],
          D |-> fs_write(D, name, SeedFile, to_string(EmptyMap))]

-----------------------------------------------------------------------------
(* Comparison of values (r.rs, u.rs).                                      *)

\* data_eq: the two values carry the same variant.
data_eq(x, y) == x.tag = y.tag

\* impl PartialEq for Data
DataEq(x, y) == data_eq(x, y) /\ x.s = y.s /\ x.n = y.n

\* str::cmp on the strings of the model, as their rank in byte order.
StringRank(s) ==
    CASE s = "" -> 0
      [] s = "0" -> 1
      [] s = "1" -> 2
      [] s = "3" -> 3
      [] s = "alice" -> 4
      [] s = "bob" -> 5
      [] s = "m" -> 6
      [] s = "s" -> 7
      [] s = "u208" -> 8
      [] s = "u58659" -> 9
      [] s = "u67268" -> 10
      [] s = "u674" -> 11
      [] s = "v1" -> 12

\* Ord::cmp of two integers: "Less", "Equal" or "Greater".
IntCmp(a, b) == IF a < b THEN "Less" ELSE IF a = b THEN "Equal" ELSE "Greater"

\* An ordering that compares self's payload with other's.
partial_cmp_forward(self, other) ==
    IF self.tag # other.tag THEN "None"
    ELSE CASE self.tag = "STRING" -> IntCmp(StringRank(self.s), StringRank(other.s))
           [] self.tag = "NUMBER" -> IntCmp(self.n, other.n)
           [] self.tag = "BOOLEAN" -> IntCmp(self.n, other.n)
           [] OTHER -> "None"

\* impl PartialOrd for Data: partial_cmp(self, other) compares other's payload
\* with self's (j.cmp(i)); values of different variants are not ordered.
partial_cmp(self, other) ==
    IF self.tag # other.tag THEN "None"
    ELSE CASE self.tag = "STRING" -> IntCmp(StringRank(other.s), StringRank(self.s))
           [] self.tag = "NUMBER" -> IntCmp(other.n, self.n)
           [] self.tag = "BOOLEAN" -> IntCmp(other.n, self.n)
           [] OTHER -> "None"

\* CMP::calculate
calculate(cmp, x, y) ==
    CASE cmp = "EQUAL" -> DataEq(x, y)
      [] cmp = "LESS" -> partial_cmp(x, y) = "Less"
      [] cmp = "LESSEQ" -> partial_cmp(x, y) \in {"Less", "Equal"}
      [] cmp = "GREATER" -> partial_cmp(x, y) = "Greater"
      [] cmp = "GTEQ" -> partial_cmp(x, y) \in {"Greater", "Equal"}

\* The test the scans apply to a row: it has the field and the comparison
\* of the given value with the row's value holds.
row_matches(row, fieldname, fieldvalue, cmp) ==
    fieldname \in DOMAIN row /\ calculate(cmp, fieldvalue, row[fieldname][1])

\* The orders in which an iterator may yield the elements of S (read_dir and
\* HashMap iteration promise none).
Orders(S) ==
    {p \in [1..Cardinality(S) -> S] : \A i, j \in 1..Cardinality(S) : p[i] = p[j] => i = j}

\* The ids stored in the readable shard files of a table.
StoredIds(D, t) ==
    UNION {DOMAIN from_str(D[t].files[f]).map : f \in DOMAIN D[t].files}

\* The orders in which the rows of the files may be yielded. A scan walks one
\* file at a time, so only the order of the keys of one file shows: the orders
\* kept are those that list the keys file by file.
KeyOrders(D, t) ==
    {p \in Orders(StoredIds(D, t)) :
        \A i, j \in 1..Len(p) :
            (i < j /\ get_file_by_id(p[i]) # get_file_by_id(p[j]))
                => Len(p[i]) <= Len(p[j])}

\* The orders in which a scan may meet the rows of a table: the files in any
\* order, the keys of one file together and in any order.
ScanOrders(D, t) ==
    {p \in Orders(StoredIds(D, t)) :
        \A i, j, k \in 1..Len(p) :
            (i < j /\ j < k /\ get_file_by_id(p[i]) = get_file_by_id(p[k]))
                => get_file_by_id(p[j]) = get_file_by_id(p[i])}

-----------------------------------------------------------------------------
(* Update (u.rs).                                                          *)

\* for (k, v) in new_row { row.insert(k, v) }
Merge(row, new_row) ==
    [k \in DOMAIN row \cup DOMAIN new_row |->
        IF k \in DOMAIN new_row THEN new_row[k] ELSE row[k]]

\* DATABASE::update_row_by_id: read, merge, delete, insert; the outcomes of the
\* delete and of the insert are dropped (a panic of add_row is not).
update_row_by_id(S, D, tablename, id_, new_row) ==
    LET got == get_by_id(D, tablename, id_)
        row == Merge(got.row, new_row)
        del == delete_row_by_id(D, tablename, id_)
        add == add_row(S, del.D, tablename, row, TRUE)
    IN  IF ~got.some THEN [res |-> "none", ret |-> None, D |-> D]
        ELSE IF add.res = "panic" THEN [res |-> "panic", ret |-> None, D |-> add.D]
        ELSE [res |-> "some", ret |-> Some(row), D |-> add.D]

\* DATABASE::update_field_by_id
update_field_by_id(S, D, tablename, id_, fieldname, new_value) ==
    LET got == get_by_id(D, tablename, id_)
        row == MapInsert(got.row, fieldname, new_value)
        del == delete_row_by_id(D, tablename, id_)
        add == add_row(S, del.D, tablename, row, TRUE)
    IN  IF ~got.some THEN [res |-> "none", ret |-> None, D |-> D]
        ELSE IF add.res = "panic" THEN [res |-> "panic", ret |-> None, D |-> add.D]
        ELSE [res |-> "some", ret |-> Some([k \in {fieldname} |-> new_value]), D |-> add.D]

\* An update whose deletion stays in memory: the shard file is not written.
update_delete_unpersisted(D, tablename, id_, row) ==
    LET got == get_by_id(D, tablename, id_)
    IN  IF ~got.some THEN [res |-> "none", old |-> EmptyMap, row |-> EmptyMap, D |-> D]
        ELSE [res |-> "deleted", old |-> got.row, row |-> row, D |-> D]

\* update_row_by_id and update_field_by_id up to and including the write of
\* delete_row_by_id: the row read, the merged row (given), the old entry
\* removed from its shard file.
update_delete(D, tablename, id_, row) ==
    LET got == get_by_id(D, tablename, id_)
        del == delete_row_by_id(D, tablename, id_)
    IN  IF ~got.some THEN [res |-> "none", old |-> EmptyMap, row |-> EmptyMap, D |-> D]
        ELSE [res |-> "deleted", old |-> got.row, row |-> row, D |-> del.D]

\* The rest of both updates: add_row of the merged row with overwrite, its
\* Result dropped.
update_insert(S, D, tablename, row) ==
    LET add == add_row(S, D, tablename, row, TRUE)
    IN  [res |-> IF add.res = "panic" THEN "panic" ELSE "some", D |-> add.D]

\* The inner loop of update_row_where and update_field_where over the rows of
\* one shard file, in the order keys: every matching row of the snapshot is
\* patched in deser, and deser is written to the file that owns the row's key.
\* stop = "none": the target file is missing; "first": multi is false and a row
\* was patched; "no": the loop ran to its end.
RECURSIVE update_rows_of_file(_, _, _, _, _, _, _)
update_rows_of_file(D, q, snapshot, deser, keys, j, patch) ==
    IF j > Len(keys) THEN [stop |-> "no", record |-> EmptyMap, D |-> D]
    ELSE IF keys[j] \in DOMAIN snapshot
            /\ row_matches(snapshot[keys[j]], q.fieldname, q.fieldvalue, q.cmp)
    THEN LET record == Merge(snapshot[keys[j]], patch)
             deser2 == MapInsert(deser, keys[j], record)
             new_path == get_file_by_id(keys[j])
         IN  IF ~file_exists(D, q.tablename, new_path)
             THEN [stop |-> "none", record |-> EmptyMap, D |-> D]
             ELSE IF ~q.multi
             THEN [stop |-> "first", record |-> record,
                   D |-> fs_write(D, q.tablename, new_path, to_string(deser2))]
             ELSE update_rows_of_file(
                      fs_write(D, q.tablename, new_path, to_string(deser2)),
                      q, snapshot, deser2, keys, j + 1, patch)
    ELSE update_rows_of_file(D, q, snapshot, deser, keys, j + 1, patch)

\* The outer loop of update_row_where and update_field_where over the shard
\* files in the order files; an unreadable file ends the call with None.
RECURSIVE update_scan(_, _, _, _, _, _)
update_scan(D, q, files, keys, i, patch) ==
    IF i > Len(files) THEN [stop |-> "no", record |-> EmptyMap, D |-> D]
    ELSE LET deser == from_str(D[q.tablename].files[files[i]])
             r == update_rows_of_file(D, q, deser.map, deser.map, keys, 1, patch)
         IN  IF ~deser.ok THEN [stop |-> "none", record |-> EmptyMap, D |-> D]
             ELSE IF r.stop # "no" THEN r
             ELSE update_scan(r.D, q, files, keys, i + 1, patch)

\* DATABASE::get_type_file panics when the schema file is missing.
get_type_file_panics(S, table_name) == ~S[table_name].exists

\* DATABASE::update_row_where. q holds tablename, fieldname, fieldvalue, multi
\* and cmp; files and keys are the iteration orders of this call.
update_row_where(S, D, q, new_row, files, keys) ==
    IF get_type_file_panics(S, q.tablename) THEN [res |-> "panic", D |-> D]
    ELSE IF S[q.tablename].id_column = q.fieldname
    THEN IF get_string(q.fieldvalue).panic THEN [res |-> "panic", D |-> D]
         ELSE LET r == update_row_by_id(S, D, q.tablename,
                                        get_string(q.fieldvalue).s, new_row)
              IN  [res |-> r.res, D |-> r.D]
    ELSE IF ~D[q.tablename].exists THEN [res |-> "none", D |-> D]
    ELSE LET r == update_scan(D, q, files, keys, 1, new_row)
         IN  [res |-> IF r.stop = "none" THEN "none" ELSE "some", D |-> r.D]

\* DATABASE::update_field_where. When the field to change is the id column the
\* call goes to update_field_by_id with the filter value as the raw id and the
\* filter field as the field to set.
update_field_where(S, D, q, field_to_change, new_field_val, files, keys) ==
    IF get_type_file_panics(S, q.tablename) THEN [res |-> "panic", D |-> D]
    ELSE IF S[q.tablename].id_column = field_to_change
    THEN IF get_string(q.fieldvalue).panic THEN [res |-> "panic", D |-> D]
         ELSE LET r == update_field_by_id(S, D, q.tablename,
                                          get_string(q.fieldvalue).s,
                                          q.fieldname, new_field_val)
              IN  [res |-> r.res, D |-> r.D]
    ELSE IF ~D[q.tablename].exists THEN [res |-> "none", D |-> D]
    ELSE LET patch == [k \in {field_to_change} |-> new_field_val]
             r == update_scan(D, q, files, keys, 1, patch)
         IN  [res |-> IF r.stop = "none" THEN "none" ELSE "some", D |-> r.D]

-----------------------------------------------------------------------------
(* Delete by predicate (d.rs).                                             *)

\* The rows delete_row_where removes from one file: every matching row, or
\* with multi false the matching row the iteration yields first.
RECURSIVE first_match(_, _, _, _)
first_match(map, q, keys, j) ==
    IF j > Len(keys) THEN {}
    ELSE IF keys[j] \in DOMAIN map
            /\ row_matches(map[keys[j]], q.fieldname, q.fieldvalue, q.cmp)
    THEN {keys[j]}
    ELSE first_match(map, q, keys, j + 1)

keys_removed(map, q, keys) ==
    IF q.multi
    THEN {k \in DOMAIN map : row_matches(map[k], q.fieldname, q.fieldvalue, q.cmp)}
    ELSE first_match(map, q, keys, 1)

\* DATABASE::delete_row_where: each readable file on its own; a file is
\* rewritten only when a row was removed from it.
delete_row_where(D, q, keys) ==
    IF ~D[q.tablename].exists THEN D
    ELSE [D EXCEPT ![q.tablename].files =
            [f \in DOMAIN D[q.tablename].files |->
                LET deser == from_str(D[q.tablename].files[f])
                    gone == keys_removed(deser.map, q, keys)
                IN  IF ~deser.ok \/ gone = {} THEN D[q.tablename].files[f]
                    ELSE to_string([k \in DOMAIN deser.map \ gone |-> deser.map[k]])]]

-----------------------------------------------------------------------------
(* Scans and the query builder (r.rs, make.rs, lib.rs).                    *)

\* The rows of one file's map in the order keys, as <<id, row>> pairs.
RECURSIVE rows_in_order(_, _, _)
rows_in_order(map, keys, j) ==
    IF j > Len(keys) THEN <<>>
    ELSE IF keys[j] \in DOMAIN map
    THEN <<(<<keys[j], map[keys[j]]>>)>> \o rows_in_order(map, keys, j + 1)
    ELSE rows_in_order(map, keys, j + 1)

\* The loop all the scans share: the <<id, row>> pairs of every shard file
\* that can be read and parsed, in the order keys (which lists the keys file
\* by file); a file that cannot be parsed is passed over.
scan_rows(D, t, keys) ==
    IF ~D[t].exists THEN <<>>
    ELSE rows_in_order(get_all(D, t), keys, 1)

\* DATABASE::get_where: the matching pairs, or the first of them.
get_where(D, q, keys) ==
    LET all == SelectSeq(scan_rows(D, q.tablename, keys),
                         LAMBDA p : row_matches(p[2], q.fieldname, q.fieldvalue, q.cmp))
    IN  IF q.multi \/ Len(all) = 0 THEN all ELSE <<all[1]>>

\* DATABASE::get_table: None when the directory is missing or any of its
\* files cannot be parsed, else the rows of all files by id.
get_table(D, table_name) ==
    IF ~D[table_name].exists THEN [some |-> FALSE, table |-> EmptyMap]
    ELSE IF \E f \in DOMAIN D[table_name].files : ~from_str(D[table_name].files[f]).ok
    THEN [some |-> FALSE, table |-> EmptyMap]
    ELSE [some |-> TRUE, table |-> get_all(D, table_name)]

\* A condition of a builder, with the connective it was pushed with.
Cond(logic, field, op, value) ==
    [logic |-> logic, field |-> field, op |-> op, value |-> value]

\* QueryBuilder: limit < 0 is Option::None, sort_field "" is Option::None.
QueryBuilder(table, conditions, limit, sort_field, sort_ascending) ==
    [table |-> table, conditions |-> conditions, limit |-> limit,
     sort_field |-> sort_field, sort_ascending |-> sort_ascending]

\* The test of an Operator on two integers.
op_holds(op, a, b) ==
    CASE op = "Eq" -> a = b
      [] op = "Ne" -> a # b
      [] op = "Gt" -> a > b
      [] op = "Lt" -> a < b
      [] op = "Gte" -> a >= b
      [] op = "Lte" -> a <= b

\* QueryBuilder::compare: two strings or two numbers; anything else is false.
compare(op, left, right) ==
    CASE left.tag = "STRING" /\ right.tag = "STRING" ->
            op_holds(op, StringRank(left.s), StringRank(right.s))
      [] left.tag = "NUMBER" /\ right.tag = "NUMBER" -> op_holds(op, left.n, right.n)
      [] OTHER -> FALSE

\* A test that passes a row when one of the conditions holds.
matches_any(qb, row) ==
    \E i \in 1..Len(qb.conditions) :
        LET cond == qb.conditions[i]
        IN  /\ cond.field \in DOMAIN row
            /\ compare(cond.op, row[cond.field][1], cond.value)

\* QueryBuilder::matches_all: every condition must hold, whatever connective
\* it was pushed with.
matches_all(qb, row) ==
    \A i \in 1..Len(qb.conditions) :
        LET cond == qb.conditions[i]
        IN  /\ cond.field \in DOMAIN row
            /\ compare(cond.op, row[cond.field][1], cond.value)

\* The comparator of execute's sort_by: numbers with numbers, strings with
\* strings, Equal otherwise; reversed when descending.
sort_ord(qb, a, b) ==
    LET f == qb.sort_field
        known == f \in DOMAIN a /\ f \in DOMAIN b
        ord == IF known /\ a[f][1].tag = "NUMBER" /\ b[f][1].tag = "NUMBER"
               THEN IntCmp(a[f][1].n, b[f][1].n)
               ELSE IF known /\ a[f][1].tag = "STRING" /\ b[f][1].tag = "STRING"
               THEN IntCmp(StringRank(a[f][1].s), StringRank(b[f][1].s))
               ELSE "Equal"
    IN  IF qb.sort_ascending THEN ord
        ELSE CASE ord = "Less" -> "Greater" [] ord = "Greater" -> "Less" [] OTHER -> "Equal"

\* slice::sort_by is stable: x goes behind the elements that are not greater.
RECURSIVE insert_sorted(_, _, _)
insert_sorted(qb, sorted, x) ==
    IF Len(sorted) = 0 THEN <<x>>
    ELSE IF sort_ord(qb, x, sorted[Len(sorted)]) = "Less"
    THEN Append(insert_sorted(qb, SubSeq(sorted, 1, Len(sorted) - 1), x),
                sorted[Len(sorted)])
    ELSE Append(sorted, x)

RECURSIVE sort_by(_, _, _)
sort_by(qb, results, n) ==
    IF n = 0 THEN <<>> ELSE insert_sorted(qb, sort_by(qb, results, n - 1), results[n])

\* Vec::truncate
truncate(v, max) == IF Len(v) > max THEN SubSeq(v, 1, max) ELSE v

\* The rows of a sequence of <<id, row>> pairs.
rows_of(pairs) == [i \in 1..Len(pairs) |-> pairs[i][2]]

\* An execute that cuts the matches to the limit before it sorts them.
execute_limit_first(D, qb, keys) ==
    LET results == SelectSeq(rows_of(scan_rows(D, qb.table, keys)),
                             LAMBDA row : matches_all(qb, row))
        cut == IF qb.limit >= 0 THEN truncate(results, qb.limit) ELSE results
    IN  IF qb.sort_field # "" THEN sort_by(qb, cut, Len(cut)) ELSE cut

\* QueryBuilder::execute: scan, filter, sort if asked, truncate if asked.
execute(D, qb, keys) ==
    LET results == SelectSeq(rows_of(scan_rows(D, qb.table, keys)),
                             LAMBDA row : matches_all(qb, row))
        sorted == IF qb.sort_field # "" THEN sort_by(qb, results, Len(results))
                  ELSE results
    IN  IF qb.limit >= 0 THEN truncate(sorted, qb.limit) ELSE sorted

\* QueryBuilder::select: the whole table or nothing, filtered; the sort
\* field and the limit are not looked at.
select(D, qb, keys) ==
    LET table == get_table(D, qb.table).table
    IN  SelectSeq(rows_of(rows_in_order(table, keys, 1)),
                  LAMBDA row : matches_all(qb, row))

\* QueryBuilder::exists
exists(D, qb) ==
    \E k \in DOMAIN get_all(D, qb.table) : matches_all(qb, get_all(D, qb.table)[k])

\* The key of a stored row as the String it is: the mutations of the builder
\* hand it to the calls by id in the place of the raw id.
key_string(k) ==
    CASE k = <<9, 2, 8, 7, 1, 6, 7, 3, 7>> -> "928716737"
      [] k = <<9, 2, 5, 1, 5, 8, 6, 5, 1>> -> "925158651"
      [] k = <<1, 8, 9, 2, 5, 5>> -> "189255"

\* The call by id a mutation of the builder makes for one matching row.
by_id(S, D, t, id, call) ==
    CASE call.op = "delete" -> [res |-> "ok", D |-> delete_row_by_id(D, t, id).D]
      [] call.op = "update_row" -> update_row_by_id(S, D, t, id, call.new_row)
      [] call.op = "update_field" ->
            update_field_by_id(S, D, t, id, call.fieldname, call.new_value)

\* The loop the mutations of the builder share: over the rows of get_table
\* in the order keys, each row of the snapshot that matches gets the call by
\* id, made with the row's key; a panic of that call ends the loop.
RECURSIVE for_each_match(_, _, _, _, _, _, _)
for_each_match(S, D, qb, table, keys, j, call) ==
    IF j > Len(keys) THEN [res |-> "ok", D |-> D]
    ELSE IF keys[j] \in DOMAIN table /\ matches_all(qb, table[keys[j]])
    THEN LET r == by_id(S, D, qb.table, key_string(keys[j]), call)
         IN  IF r.res = "panic" THEN [res |-> "panic", D |-> r.D]
             ELSE for_each_match(S, r.D, qb, table, keys, j + 1, call)
    ELSE for_each_match(S, D, qb, table, keys, j + 1, call)

\* QueryBuilder::delete
qb_delete(S, D, qb, keys) ==
    for_each_match(S, D, qb, get_table(D, qb.table).table, keys, 1, [op |-> "delete"])

\* QueryBuilder::update_row
qb_update_row(S, D, qb, new_row, keys) ==
    for_each_match(S, D, qb, get_table(D, qb.table).table, keys, 1,
                   [op |-> "update_row", new_row |-> new_row])

\* QueryBuilder::update_field
qb_update_field(S, D, qb, fieldname, new_value, keys) ==
    for_each_match(S, D, qb, get_table(D, qb.table).table, keys, 1,
                   [op |-> "update_field", fieldname |-> fieldname,
                    new_value |-> new_value])

-----------------------------------------------------------------------------
(* Migrations (u.rs).                                                      *)

\* serde_json's Value: a string, a number held as i64, as f64 or as a u64
\* beyond i64, a boolean (0 / 1), and Null, the default of a descriptor that
\* names none.
JsonString(s) == [tag |-> "String", s |-> s, n |-> 0]
JsonI64(n) == [tag |-> "I64", s |-> "", n |-> n]
JsonF64(n) == [tag |-> "F64", s |-> "", n |-> n]
JsonU64(n) == [tag |-> "U64", s |-> "", n |-> n]
JsonBool(b) == [tag |-> "Bool", s |-> "", n |-> b]
NullValue == [tag |-> "Null", s |-> "", n |-> 0]

\* A migration descriptor: the JSON object of one migration file.
Descriptor(operation, table, id_column, fields, field, datatype, default, old_field, new_field) ==
    [operation |-> operation, table |-> table, id_column |-> id_column,
     fields |-> fields, field |-> field, datatype |-> datatype,
     default |-> default, old_field |-> old_field, new_field |-> new_field]

\* The names Type::from_string knows.
TypeNames ==
    {"NULL", "STRING", "NUMBER", "ARRAY", "HASHMAP", "BOOLEAN", "JSON", "HASHSET",
     "TABLE", "STRINGNULL", "NUMBERNULL", "ARRAYNULL", "HASHMAPNULL",
     "BOOLEANNULL", "JSONNULL", "HASHSETNULL", "TABLENULL"}

\* fs::read_dir of a table directory: its files in the order rank lists them.
read_dir(D, t, rank) == SelectSeq(rank, LAMBDA f : f \in DOMAIN D[t].files)

\* save_schema: write the TABLE to <root>/<name>-type.txt
save_schema(S, table) == [S EXCEPT ![table.name] = table]

\* The default of add_column as a Data value: strings, numbers that are f64
\* or i64, and booleans only.
default_supported(default) == default.tag \in {"String", "F64", "I64", "Bool"}
default_data(default) ==
    CASE default.tag = "String" -> DataString(default.s)
      [] default.tag \in {"F64", "I64"} -> DataNumber(default.n)
      [] default.tag = "Bool" -> DataBoolean(default.n)

\* A row rewrite that leaves every row as it was.
migrate_row_kept(m, row) == row

\* A row rewrite whose rename takes the old key out and puts nothing in.
migrate_row_unnamed(m, row) ==
    CASE m.operation = "add_column" ->
            IF m.field \in DOMAIN row THEN row
            ELSE MapInsert(row, m.field, <<default_data(m.default), m.datatype>>)
      [] m.operation = "rename_column" -> MapRemove(row, m.old_field)
      [] m.operation = "drop_column" -> MapRemove(row, m.field)
      [] OTHER -> row

\* What the loop over map.values_mut() does to one row, by operation.
migrate_row(m, row) ==
    CASE m.operation = "add_column" ->
            IF m.field \in DOMAIN row THEN row
            ELSE MapInsert(row, m.field, <<default_data(m.default), m.datatype>>)
      [] m.operation = "rename_column" ->
            IF m.old_field \in DOMAIN row
            THEN MapInsert(MapRemove(row, m.old_field), m.new_field, row[m.old_field])
            ELSE row
      [] m.operation = "drop_column" -> MapRemove(row, m.field)
      [] OTHER -> row

\* The loop over the table's files of add_column, rename_column and
\* drop_column: each file is read, its rows changed, and written back; the
\* loop returns at the first file it cannot parse, and add_column at the
\* first row that lacks the field when the default is not supported.
RECURSIVE rewrite_files(_, _, _, _, _)
rewrite_files(D, t, entries, i, m) ==
    IF i > Len(entries) THEN [res |-> "ok", D |-> D]
    ELSE LET path == entries[i]
             parsed == from_str(D[t].files[path])
         IN  IF ~parsed.ok THEN [res |-> "err", D |-> D]
             ELSE IF /\ m.operation = "add_column"
                     /\ ~default_supported(m.default)
                     /\ \E k \in DOMAIN parsed.map : m.field \notin DOMAIN parsed.map[k]
             THEN [res |-> "err", D |-> D]
             ELSE rewrite_files(
                      fs_write(D, t, path,
                               to_string([k \in DOMAIN parsed.map |->
                                             migrate_row(m, parsed.map[k])])),
                      t, entries, i + 1, m)

\* The outcome of a migration: "ok", "err" or "panic", and the files it left.
Outcome(res, S, D) == [res |-> res, S |-> S, D |-> D]

\* apply_migration, "create_table" arm
migrate_create_table(S, D, m) ==
    LET fields == [f \in DOMAIN m.fields |-> <<m.fields[f], "">>]
        r == create_table(S, D, fields, m.id_column, m.table)
    IN  IF \E f \in DOMAIN m.fields : m.fields[f] \notin {"STRING", "NUMBER", "BOOLEAN"}
        THEN Outcome("err", S, D)
        ELSE IF r.res # "ok" THEN Outcome("panic", S, D)
        ELSE Outcome("ok", save_schema(r.S, r.S[m.table]), r.D)

\* An add_column that rewrites the rows and leaves the schema file alone.
migrate_add_column_rows_only(S, D, m, rank) ==
    LET t == m.table
        rw == rewrite_files(D, t, read_dir(D, t, rank), 1, m)
    IN  IF ~D[t].exists THEN Outcome("err", S, D)
        ELSE IF rw.res # "ok" THEN Outcome("err", S, rw.D)
        ELSE Outcome("ok", S, rw.D)

\* apply_migration, "add_column" arm
migrate_add_column(S, D, m, rank) ==
    LET t == m.table
        rw == rewrite_files(D, t, read_dir(D, t, rank), 1, m)
        table == [S[t] EXCEPT !.field_names = MapInsert(@, m.field, <<m.datatype, "">>)]
    IN  IF ~D[t].exists THEN Outcome("err", S, D)
        ELSE IF rw.res # "ok" THEN Outcome("err", S, rw.D)
        ELSE IF ~S[t].exists THEN Outcome("err", S, rw.D)
        ELSE IF m.datatype \notin TypeNames THEN Outcome("panic", S, rw.D)
        ELSE IF table.id_column = m.field
        THEN Outcome("err", save_schema(S, table), rw.D)
        ELSE Outcome("ok", save_schema(S, table), rw.D)

\* apply_migration, "rename_column" arm
migrate_rename_column(S, D, m, rank) ==
    LET t == m.table
        rw == rewrite_files(D, t, read_dir(D, t, rank), 1, m)
        table == [S[t] EXCEPT !.field_names =
                     MapInsert(MapRemove(@, m.old_field), m.new_field, @[m.old_field])]
    IN  IF ~S[t].exists THEN Outcome("err", S, D)
        ELSE IF S[t].id_column = m.old_field THEN Outcome("err", S, D)
        ELSE IF ~D[t].exists THEN Outcome("err", S, D)
        ELSE IF rw.res # "ok" THEN Outcome("err", S, rw.D)
        ELSE IF m.old_field \notin DOMAIN S[t].field_names THEN Outcome("err", S, rw.D)
        ELSE Outcome("ok", save_schema(S, table), rw.D)

\* A drop_column that drops whatever field it is given.
migrate_drop_column_any(S, D, m, rank) ==
    LET t == m.table
        rw == rewrite_files(D, t, read_dir(D, t, rank), 1, m)
        table == [S[t] EXCEPT !.field_names = MapRemove(@, m.field)]
    IN  IF ~D[t].exists THEN Outcome("err", S, D)
        ELSE IF ~S[t].exists THEN Outcome("err", S, D)
        ELSE IF rw.res # "ok" THEN Outcome("err", S, rw.D)
        ELSE IF m.field \notin DOMAIN S[t].field_names THEN Outcome("err", S, rw.D)
        ELSE Outcome("ok", save_schema(S, table), rw.D)

\* A drop_column that takes the field out of the rows and leaves the schema
\* file alone.
migrate_drop_column_rows_only(S, D, m, rank) ==
    LET t == m.table
        rw == rewrite_files(D, t, read_dir(D, t, rank), 1, m)
    IN  IF ~D[t].exists THEN Outcome("err", S, D)
        ELSE IF ~S[t].exists THEN Outcome("err", S, D)
        ELSE IF S[t].id_column = m.field THEN Outcome("err", S, D)
        ELSE IF rw.res # "ok" THEN Outcome("err", S, rw.D)
        ELSE IF m.field \notin DOMAIN S[t].field_names THEN Outcome("err", S, rw.D)
        ELSE Outcome("ok", S, rw.D)

\* apply_migration, "drop_column" arm
migrate_drop_column(S, D, m, rank) ==
    LET t == m.table
        rw == rewrite_files(D, t, read_dir(D, t, rank), 1, m)
        table == [S[t] EXCEPT !.field_names = MapRemove(@, m.field)]
    IN  IF ~D[t].exists THEN Outcome("err", S, D)
        ELSE IF ~S[t].exists THEN Outcome("err", S, D)
        ELSE IF S[t].id_column = m.field THEN Outcome("err", S, D)
        ELSE IF rw.res # "ok" THEN Outcome("err", S, rw.D)
        ELSE IF m.field \notin DOMAIN S[t].field_names THEN Outcome("err", S, rw.D)
        ELSE Outcome("ok", save_schema(S, table), rw.D)

\* apply_migration, "delete_table" arm: the directory goes, the schema file
\* is read back and rewritten as it is.
migrate_delete_table(S, D, m) ==
    LET removed == IF D[m.table].exists THEN [D EXCEPT ![m.table] = NoDir] ELSE D
    IN  IF ~S[m.table].exists THEN Outcome("panic", S, removed)
        ELSE Outcome("ok", save_schema(S, S[m.table]), removed)

\* DATABASE::apply_migration
apply_migration(S, D, m, rank) ==
    CASE m.operation = "create_table" -> migrate_create_table(S, D, m)
      [] m.operation = "add_column" -> migrate_add_column(S, D, m, rank)
      [] m.operation = "rename_column" -> migrate_rename_column(S, D, m, rank)
      [] m.operation = "drop_column" -> migrate_drop_column(S, D, m, rank)
      [] m.operation = "delete_table" -> migrate_delete_table(S, D, m)
      [] OTHER -> Outcome("err", S, D)

\* A loop that goes on to the next file after one has failed.
RECURSIVE apply_pending_on(_, _, _, _, _, _, _, _)
apply_pending_on(S, D, files, ledger, newly_applied, counts, i, rank) ==
    IF i > Len(files)
    THEN [res |-> "ok", S |-> S, D |-> D, newly_applied |-> newly_applied,
          counts |-> counts]
    ELSE IF i \in ledger
    THEN apply_pending_on(S, D, files, ledger, newly_applied, counts, i + 1, rank)
    ELSE LET r == apply_migration(S, D, files[i], rank)
         IN  IF r.res # "ok"
             THEN [apply_pending_on(r.S, r.D, files, ledger, newly_applied, counts,
                                    i + 1, rank) EXCEPT !.res = r.res]
             ELSE apply_pending_on(r.S, r.D, files, ledger, newly_applied \cup {i},
                                   [counts EXCEPT ![i] = @ + 1], i + 1, rank)

\* The loop of apply_migrations over the sorted files, from the i-th on:
\* a file named in the ledger is skipped, any other is applied, and the
\* first one that fails ends the run.
RECURSIVE apply_pending(_, _, _, _, _, _, _, _)
apply_pending(S, D, files, ledger, newly_applied, counts, i, rank) ==
    IF i > Len(files)
    THEN [res |-> "ok", S |-> S, D |-> D, newly_applied |-> newly_applied,
          counts |-> counts]
    ELSE IF i \in ledger
    THEN apply_pending(S, D, files, ledger, newly_applied, counts, i + 1, rank)
    ELSE LET r == apply_migration(S, D, files[i], rank)
         IN  IF r.res # "ok"
             THEN [res |-> r.res, S |-> r.S, D |-> r.D,
                   newly_applied |-> newly_applied, counts |-> counts]
             ELSE apply_pending(r.S, r.D, files, ledger, newly_applied \cup {i},
                                [counts EXCEPT ![i] = @ + 1], i + 1, rank)

\* A run that completes its loop and then leaves the ledger as it found it.
apply_migrations_unrecorded(S, D, files, ledger, counts, rank) ==
    LET r == apply_pending(S, D, files, ledger, {}, counts, 1, rank)
    IN  [res |-> r.res, S |-> r.S, D |-> r.D, applied |-> ledger, counts |-> r.counts]

\* DATABASE::apply_migrations: the ledger is written once, after the loop,
\* and only by a run in which every pending migration succeeded.
apply_migrations(S, D, files, ledger, counts, rank) ==
    LET r == apply_pending(S, D, files, ledger, {}, counts, 1, rank)
    IN  [res |-> r.res, S |-> r.S, D |-> r.D,
         applied |-> IF r.res = "ok" /\ r.newly_applied # {}
                     THEN ledger \cup r.newly_applied ELSE ledger,
         counts |-> r.counts]

-----------------
(* The calls the model makes.                                              *)

Tables == {"people"}

\* Raw id values that match the id pattern.
RawIds == {"u58659", "u67268", "u208", "u674"}

\* A row of the people table.
Row(id, n) == [id |-> <<DataString(id), "">>, v |-> <<DataNumber(n), "m">>]

\* Rows that conform to the people schema.
ConformingRows == {Row(id, n) : id \in RawIds, n \in 0..MaxNum}

\* Rows that do not: a missing field, a mistyped field, an extra field, an id
\* the pattern rejects.
BadRows ==
    { [id |-> <<DataString("u208"), "">>],
      [id |-> <<DataString("u208"), "">>, v |-> <<DataString("s"), "m">>],
      [id |-> <<DataString("u208"), "">>, v |-> <<DataNumber(0), "m">>,
       w |-> <<DataNumber(0), "">>],
      [id |-> <<DataString("v1"), "">>, v |-> <<DataNumber(0), "m">>] }

\* The field map CreateTable is called with.
PeopleFields == [id |-> <<"STRING", "^u">>, v |-> <<"NUMBER", "">>]

\* The partial rows the row updates merge in: a new value; a new id together
\* with a field the schema does not have.
NewRows ==
    { [v |-> <<DataNumber(MaxNum), "m">>],
      [id |-> <<DataString("u208"), "">>, w |-> <<DataNumber(0), "">>] }

\* The single fields the field updates set: a new value, a new id.
NewFields ==
    { <<"v", <<DataNumber(0), "m">>>>,
      <<"id", <<DataString("u674"), "">>>> }

\* The filters of the scans.
Filter(t, f, x, c, m) ==
    [tablename |-> t, fieldname |-> f, fieldvalue |-> x, cmp |-> c, multi |-> m]
Filters ==
    UNION {{ Filter(t, "id", DataString("u58659"), "EQUAL", FALSE),
             Filter(t, "v", DataNumber(0), "EQUAL", FALSE),
             Filter(t, "v", DataNumber(MaxNum), "LESS", TRUE) } : t \in Tables}

\* The concurrent callers of add_row, and a caller that is in no call.
Writers == {1, 2}
Idle == [pc |-> "idle", table |-> "", row |-> EmptyMap, overwrite |-> FALSE,
         id |-> <<>>, filename |-> <<>>, data |-> EmptyMap, res |-> ""]

\* Whether a row carries an id value that has a string form, and that form.
HasRawId(S, t, row) ==
    /\ S[t].exists
    /\ S[t].id_column \in DOMAIN row
    /\ ~get_string(row[S[t].id_column][1]).panic
RawIdOf(S, t, row) == get_string(row[S[t].id_column][1]).s

\* What last records of a call: the operation, its table, the raw id or the
\* row it was given, its overwrite flag, its outcome, and whether the numeric
\* id it addresses was stored when it was made.
Call(op, table, id, row, overwrite, res, present) ==
    [op |-> op, table |-> table, id |-> id, row |-> row, overwrite |-> overwrite,
     res |-> res, present |-> present, arg |-> <<>>, out |-> <<>>]

\* The same for a scan: arg is the filter or the builder it was made with,
\* out the rows it returned.
CallOut(op, table, arg, res, out) ==
    [Call(op, table, "", EmptyMap, FALSE, res, FALSE) EXCEPT !.arg = arg, !.out = out]

\* DATABASE::init on a fresh root: no table yet.
Init ==
    /\ schemas = [t \in Tables |-> NoSchema]
    /\ dirs = [t \in Tables |-> NoDir]
    /\ last = Call("init", "", "", EmptyMap, FALSE, "ok", FALSE)
    /\ migrations = <<>>
    /\ applied = {}
    /\ executed = <<>>
    /\ settled = FALSE
    /\ writers = [w \in Writers |-> Idle]

CreateTable(fields, id_field, name) ==
    LET r == create_table(schemas, dirs, fields, id_field, name)
    IN  /\ schemas' = r.S
        /\ dirs' = r.D
        /\ last' = Call("create_table", name, id_field, EmptyMap, FALSE, r.res, FALSE)
        /\ UNCHANGED <<migvars, writers>>

\* DATABASE::check_type_regex on the schema of a table, the HashMap of the
\* schema yielding its fields in some order.
CheckTypeRegex(t, row) ==
    /\ schemas[t].exists
    /\ \E fields \in Orders(DOMAIN schemas[t].field_names) :
           last' = Call("check_type_regex", t, "", row, FALSE,
                        check_type_regex_in(row, schemas[t], fields, 1), FALSE)
    /\ UNCHANGED <<schemas, dirs, migvars, writers>>

AddRow(t, row, overwrite) ==
    LET r == add_row(schemas, dirs, t, row, overwrite)
        present == HasRawId(schemas, t, row)
                   /\ get_by_id(dirs, t, RawIdOf(schemas, t, row)).some
    IN  /\ dirs' = r.D
        /\ last' = Call("add_row", t, "", row, overwrite, r.res, present)
        /\ UNCHANGED <<schemas, migvars, writers>>

GetById(t, id_input) ==
    LET r == get_by_id(dirs, t, id_input)
    IN  /\ last' = Call("get_by_id", t, id_input, EmptyMap, FALSE,
                        IF r.some THEN "some" ELSE "none", r.some)
        /\ UNCHANGED <<schemas, dirs, migvars, writers>>

DeleteRowById(t, id_) ==
    LET r == delete_row_by_id(dirs, t, id_)
    IN  /\ dirs' = r.D
        /\ last' = Call("delete_row_by_id", t, id_, EmptyMap, FALSE,
                        IF r.got.some THEN "some" ELSE "none",
                        get_by_id(dirs, t, id_).some)
        /\ UNCHANGED <<schemas, migvars, writers>>

UpdateRowById(t, id_, new_row) ==
    LET r == update_row_by_id(schemas, dirs, t, id_, new_row)
    IN  /\ dirs' = r.D
        /\ last' = Call("update_row_by_id", t, id_, EmptyMap, FALSE, r.res,
                        get_by_id(dirs, t, id_).some)
        /\ UNCHANGED <<schemas, migvars, writers>>

UpdateFieldById(t, id_, fieldname, new_value) ==
    LET r == update_field_by_id(schemas, dirs, t, id_, fieldname, new_value)
    IN  /\ dirs' = r.D
        /\ last' = Call("update_field_by_id", t, id_, EmptyMap, FALSE, r.res,
                        get_by_id(dirs, t, id_).some)
        /\ UNCHANGED <<schemas, migvars, writers>>

\* The iteration orders of a scan: none is drawn when the call does not scan.
FileOrders(scans, t) ==
    IF scans /\ dirs[t].exists THEN Orders(DOMAIN dirs[t].files) ELSE {<<>>}
RowOrders(scans, t) ==
    IF scans /\ dirs[t].exists THEN KeyOrders(dirs, t) ELSE {<<>>}

UpdateRowWhere(q, new_row) ==
    LET scans == schemas[q.tablename].exists
                 /\ schemas[q.tablename].id_column # q.fieldname
    IN  \E files \in FileOrders(scans, q.tablename) :
        \E keys \in RowOrders(scans, q.tablename) :
            LET r == update_row_where(schemas, dirs, q, new_row, files, keys)
            IN  /\ dirs' = r.D
                /\ last' = Call("update_row_where", q.tablename, "", EmptyMap, FALSE,
                                r.res, FALSE)
                /\ UNCHANGED <<schemas, migvars, writers>>

UpdateFieldWhere(q, field_to_change, new_field_val) ==
    LET scans == schemas[q.tablename].exists
                 /\ schemas[q.tablename].id_column # field_to_change
    IN  \E files \in FileOrders(scans, q.tablename) :
        \E keys \in RowOrders(scans, q.tablename) :
            LET r == update_field_where(schemas, dirs, q, field_to_change,
                                        new_field_val, files, keys)
            IN  /\ dirs' = r.D
                /\ last' = Call("update_field_where", q.tablename, "", EmptyMap, FALSE,
                                r.res, FALSE)
                /\ UNCHANGED <<schemas, migvars, writers>>

DeleteRowWhere(q) ==
    \E keys \in RowOrders(TRUE, q.tablename) :
        /\ dirs' = delete_row_where(dirs, q, keys)
        /\ last' = CallOut("delete_row_where", q.tablename, q, "ok", <<>>)
        /\ UNCHANGED <<schemas, migvars, writers>>

\* The migration descriptors the generators are called with.
MaxMigrations == 2
MaxRuns == 2
NoFields == [f \in {} |-> ""]
CreatePeople ==
    Descriptor("create_table", "people", "id", [id |-> "STRING", v |-> "NUMBER"],
               "", "", NullValue, "", "")
AddColumns ==
    {Descriptor("add_column", "people", "", NoFields, d[1], d[2], d[3], "", "") :
        d \in {<<"w", "NUMBER", JsonI64(0)>>, <<"w", "STRING", JsonString("s")>>,
               <<"w", "BOOLEAN", JsonBool(1)>>, <<"id", "NUMBER", JsonI64(0)>>}}
RenameColumns ==
    {Descriptor("rename_column", "people", "", NoFields, "", "", NullValue, old, "x") :
        old \in {"v", "id"}}
DropColumns ==
    {Descriptor("drop_column", "people", "", NoFields, "w", "", NullValue, "", "")}
DeleteTables ==
    {Descriptor("delete_table", "people", "", NoFields, "", "", NullValue, "", "")}

\* A generator writes <timestamp>_<name>.json: the new file sorts last.
WriteMigration(op, m) ==
    /\ Len(migrations) < MaxMigrations
    /\ migrations' = Append(migrations, m)
    /\ executed' = Append(executed, 0)
    /\ settled' = FALSE
    /\ last' = Call(op, m.table, "", EmptyMap, FALSE, "ok", FALSE)
    /\ UNCHANGED <<schemas, dirs, applied, writers>>

GenerateCreateTableMigration(m) == WriteMigration("generate_create_table_migration", m)
GenerateAddColumnMigration(m) == WriteMigration("generate_add_column_migration", m)
GenerateRenameColumnMigration(m) == WriteMigration("generate_rename_column_migration", m)
GenerateDropColumnMigration(m) == WriteMigration("generate_drop_column_migration", m)
GenerateDeleteTableMigration(m) == WriteMigration("generate_delete_table_migration", m)

\* The shard files the rows of RawIds go to, with the seed file.
ShardFiles ==
    {SeedFile} \cup {get_shard_range_(string_to_numerical_uuid(id)) : id \in RawIds}

\* The orders in which a directory listing can return the files a migration
\* run can meet: those that exist, and the seed file a create_table adds.
Ranks(D) == Orders({SeedFile} \cup UNION {DOMAIN D[t].files : t \in Tables})

ApplyMigrations ==
    /\ \A i \in 1..Len(migrations) : executed[i] < MaxRuns
    /\ \E rank \in Ranks(dirs) :
        LET r == apply_migrations(schemas, dirs, migrations, applied, executed, rank)
        IN  /\ schemas' = r.S
            /\ dirs' = r.D
            /\ applied' = r.applied
            /\ executed' = r.counts
            /\ settled' = (settled \/ r.res = "ok")
            /\ last' = Call("apply_migrations", "", "", EmptyMap, FALSE, r.res, settled)
            /\ UNCHANGED <<migrations, writers>>

\* A caller enters add_row and gets as far as reading the shard file; a row
\* that is refused before that returns at once.
AddRowRead(w, t, row, overwrite) ==
    LET r == add_row_read(schemas, dirs, t, row)
    IN  /\ writers[w].pc # "read"
        /\ dirs' = r.D
        /\ writers' = [writers EXCEPT ![w] =
                          [pc |-> IF r.res = "read" THEN "read" ELSE "returned",
                           table |-> t, row |-> row, overwrite |-> overwrite,
                           id |-> r.id, filename |-> r.filename,
                           data |-> IF r.res = "read" THEN r.data ELSE EmptyMap,
                           res |-> IF r.res = "read" THEN "" ELSE r.res]]
        /\ UNCHANGED <<schemas, last, migvars>>

\* The caller goes on from the map it read: conflict test, insert, write;
\* the map is dropped on return.
AddRowWrite(w) ==
    LET c == writers[w]
        r == add_to_file_write(dirs, c.table, c.filename, c.data, c.row, c.id,
                               c.overwrite)
    IN  /\ c.pc = "read"
        /\ dirs' = r.D
        /\ writers' = [writers EXCEPT ![w] = [c EXCEPT !.pc = "returned", !.data = EmptyMap, !.res = r.res]]
        /\ last' = Call("add_row", c.table, "", c.row, c.overwrite, r.res,
                        c.id \in DOMAIN c.data)
        /\ UNCHANGED <<schemas, migvars>>

\* Something other than the store overwrites a shard file with text that is
\* no JSON map.
Corrupt(t, f) ==
    /\ file_exists(dirs, t, f)
    /\ dirs[t].files[f] # Unparseable
    /\ dirs' = fs_write(dirs, t, f, Unparseable)
    /\ last' = Call("corrupt", t, "", EmptyMap, FALSE, "ok", FALSE)
    /\ UNCHANGED <<schemas, migvars, writers>>

GetAll(t) ==
    /\ last' = CallOut("get_all", t, <<>>, "ok", get_all(dirs, t))
    /\ UNCHANGED <<schemas, dirs, migvars, writers>>

GetWhere(q) ==
    \E keys \in ScanOrders(dirs, q.tablename) :
        /\ last' = CallOut("get_where", q.tablename, q, "ok", get_where(dirs, q, keys))
        /\ UNCHANGED <<schemas, dirs, migvars, writers>>

Execute(qb) ==
    \E keys \in ScanOrders(dirs, qb.table) :
        /\ last' = CallOut("execute", qb.table, qb, "ok", execute(dirs, qb, keys))
        /\ UNCHANGED <<schemas, dirs, migvars, writers>>

\* CMP::calculate on two values.
Calculate(cmp, x, y) ==
    /\ last' = CallOut("calculate", "", <<cmp, x, y>>,
                       IF calculate(cmp, x, y) THEN "true" ELSE "false", <<>>)
    /\ UNCHANGED <<schemas, dirs, migvars, writers>>

Select(qb) ==
    \E keys \in Orders(StoredIds(dirs, qb.table)) :
        /\ last' = CallOut("select", qb.table, qb, "ok", select(dirs, qb, keys))
        /\ UNCHANGED <<schemas, dirs, migvars, writers>>

Exists(qb) ==
    /\ last' = CallOut("exists", qb.table, qb,
                       IF exists(dirs, qb) THEN "true" ELSE "false", <<>>)
    /\ UNCHANGED <<schemas, dirs, migvars, writers>>

\* DATABASE::insert: add_row with overwrite, its Result dropped.
Insert(table, row) ==
    LET r == add_row(schemas, dirs, table, row, TRUE)
    IN  /\ dirs' = r.D
        /\ last' = Call("insert", table, "", row, TRUE,
                        IF r.res = "panic" THEN "panic" ELSE "ok", FALSE)
        /\ UNCHANGED <<schemas, migvars, writers>>

\* DATABASE::add_rows; the call is recorded with the shard files it wrote.
AddRows(t, rows, overwrite) ==
    LET r == add_rows(schemas, dirs, t, rows, overwrite)
    IN  /\ dirs' = r.D
        /\ last' = CallOut("add_rows", t, <<rows, overwrite>>, r.res, r.writes)
        /\ UNCHANGED <<schemas, migvars, writers>>

\* A caller enters update_row_by_id or update_field_by_id and gets as far as
\* the write of the deletion; an id that is not stored returns at once. The
\* caller holds the merged row, the old row and the numeric id.
UpdateDelete(w, op, t, id_, row) ==
    LET r == update_delete(dirs, t, id_, row)
    IN  /\ writers[w].pc # "deleted"
        /\ dirs' = r.D
        /\ writers' = [writers EXCEPT ![w] =
                          [pc |-> IF r.res = "deleted" THEN "deleted" ELSE "returned",
                           table |-> t, row |-> r.row, overwrite |-> TRUE,
                           id |-> string_to_numerical_uuid(id_),
                           filename |-> get_file_by_id(string_to_numerical_uuid(id_)),
                           data |-> r.old,
                           res |-> IF r.res = "deleted" THEN op ELSE "none"]]
        /\ UNCHANGED <<schemas, last, migvars>>

UpdateRowDelete(w, t, id_, new_row) ==
    UpdateDelete(w, "update_row_by_id", t, id_,
                 Merge(get_by_id(dirs, t, id_).row, new_row))

UpdateFieldDelete(w, t, id_, fieldname, new_value) ==
    UpdateDelete(w, "update_field_by_id", t, id_,
                 MapInsert(get_by_id(dirs, t, id_).row, fieldname, new_value))

\* The caller goes on: add_row of the merged row.
UpdateInsert(w) ==
    LET c == writers[w]
        r == update_insert(schemas, dirs, c.table, c.row)
    IN  /\ c.pc = "deleted"
        /\ dirs' = r.D
        /\ writers' = [writers EXCEPT ![w] = [c EXCEPT !.pc = "returned", !.res = r.res]]
        /\ last' = Call(c.res, c.table, "", c.row, TRUE, r.res, TRUE)
        /\ UNCHANGED <<schemas, migvars>>

\* The process ends between the two writes: the insertion is never made.
Crash(w) ==
    /\ writers[w].pc = "deleted"
    /\ writers' = [writers EXCEPT ![w].pc = "crashed"]
    /\ last' = Call("crash", writers[w].table, "", writers[w].row, TRUE, "none", TRUE)
    /\ UNCHANGED <<schemas, dirs, migvars>>

\* QueryBuilder::delete, update_row and update_field
QbDelete(qb) ==
    \E keys \in Orders(StoredIds(dirs, qb.table)) :
        LET r == qb_delete(schemas, dirs, qb, keys)
        IN  /\ dirs' = r.D
            /\ last' = CallOut("delete", qb.table, <<qb>>, r.res, <<>>)
            /\ UNCHANGED <<schemas, migvars, writers>>

QbUpdateRow(qb, new_row) ==
    \E keys \in Orders(StoredIds(dirs, qb.table)) :
        LET r == qb_update_row(schemas, dirs, qb, new_row, keys)
        IN  /\ dirs' = r.D
            /\ last' = CallOut("update_row", qb.table, <<qb, new_row>>, r.res, <<>>)
            /\ UNCHANGED <<schemas, migvars, writers>>

QbUpdateField(qb, fieldname, new_value) ==
    \E keys \in Orders(StoredIds(dirs, qb.table)) :
        LET r == qb_update_field(schemas, dirs, qb, fieldname, new_value, keys)
        IN  /\ dirs' = r.D
            /\ last' = CallOut("update_field", qb.table, <<qb, fieldname, new_value>>,
                               r.res, <<>>)
            /\ UNCHANGED <<schemas, migvars, writers>>

\* The calls addressed by id.
Next ==
    \/ \E t \in Tables, id_field \in {"id", "name"} :
            CreateTable(PeopleFields, id_field, t)
    \/ \E t \in Tables, row \in ConformingRows \cup BadRows, overwrite \in BOOLEAN :
            AddRow(t, row, overwrite)
    \/ \E t \in Tables, id_input \in RawIds : GetById(t, id_input)
    \/ \E t \in Tables, id_ \in RawIds : DeleteRowById(t, id_)
    \/ \E t \in Tables, id_ \in RawIds, new_row \in NewRows :
            UpdateRowById(t, id_, new_row)
    \/ \E t \in Tables, id_ \in RawIds, nf \in NewFields :
            UpdateFieldById(t, id_, nf[1], nf[2])

Spec == Init /\ [][Next]_vars

\* The calls addressed by id and the scans, on three ids with three numeric
\* ids in two shard files.
WhereIds == {"u58659", "u208", "u674"}
WhereRows == {Row(id, n) : id \in WhereIds, n \in 0..MaxNum}

NextWhere ==
    \/ \E t \in Tables : CreateTable(PeopleFields, "id", t)
    \/ \E t \in Tables, row \in WhereRows, overwrite \in BOOLEAN :
            AddRow(t, row, overwrite)
    \/ \E t \in Tables, id_ \in WhereIds : DeleteRowById(t, id_)
    \/ \E t \in Tables, id_ \in WhereIds, new_row \in NewRows :
            UpdateRowById(t, id_, new_row)
    \/ \E t \in Tables, id_ \in WhereIds, nf \in NewFields :
            UpdateFieldById(t, id_, nf[1], nf[2])
    \/ \E q \in Filters, new_row \in NewRows : UpdateRowWhere(q, new_row)
    \/ \E q \in Filters, nf \in NewFields : UpdateFieldWhere(q, nf[1], nf[2])
    \/ \E q \in Filters : DeleteRowWhere(q)

SpecWhere == Init /\ [][NextWhere]_vars

\* Tables made by hand or by migration, two rows in two shard files, and
\* the migrations.
MigRows == {Row("u58659", 0), Row("u674", 0)}

NextMig ==
    \/ \E t \in Tables : CreateTable(PeopleFields, "id", t)
    \/ \E t \in Tables, row \in MigRows : AddRow(t, row, TRUE)
    \/ GenerateCreateTableMigration(CreatePeople)
    \/ \E m \in AddColumns : GenerateAddColumnMigration(m)
    \/ \E m \in RenameColumns : GenerateRenameColumnMigration(m)
    \/ \E m \in DropColumns : GenerateDropColumnMigration(m)
    \/ \E m \in DeleteTables : GenerateDeleteTableMigration(m)
    \/ ApplyMigrations

SpecMig == Init /\ [][NextMig]_vars

\* Two callers of add_row on one handle, their file reads and writes
\* interleaved.
ConcRows == {Row(id, 0) : id \in {"u58659", "u208", "u674"}}

NextConc ==
    \/ \E t \in Tables : CreateTable(PeopleFields, "id", t)
    \/ \E w \in Writers, t \in Tables, row \in ConcRows, overwrite \in BOOLEAN :
            AddRowRead(w, t, row, overwrite)
    \/ \E w \in Writers : AddRowWrite(w)

SpecConc == Init /\ [][NextConc]_vars

\* Reads by id and scans of a table whose shard files may have been
\* overwritten from outside; three ids in two shard files.
ScanRows == {Row(id, n) : id \in WhereIds, n \in {0, 1}}
ScanFilters ==
    {Filter("people", "v", DataNumber(0), "EQUAL", m) : m \in BOOLEAN}
Builders ==
    {QueryBuilder("people", <<>>, -1, "", TRUE),
     QueryBuilder("people", <<Cond("And", "v", "Eq", DataNumber(0))>>, -1, "", TRUE),
     QueryBuilder("people", <<Cond("And", "v", "Eq", DataNumber(0)),
                              Cond("Or", "id", "Eq", DataString("u208"))>>, -1, "", TRUE),
     QueryBuilder("people", <<Cond("And", "v", "Gte", DataNumber(0))>>, 1, "", TRUE),
     QueryBuilder("people", <<Cond("And", "v", "Gte", DataNumber(0))>>, -1, "v", FALSE),
     QueryBuilder("people", <<Cond("And", "v", "Gte", DataNumber(0)),
                              Cond("And", "w", "Eq", DataNumber(0))>>, -1, "", TRUE),
     QueryBuilder("people", <<>>, 1, "v", TRUE),
     QueryBuilder("people", <<>>, 2, "v", FALSE),
     QueryBuilder("people", <<Cond("And", "v", "Gte", DataNumber(0))>>, 2, "id", TRUE)}

NextScan ==
    \/ \E t \in Tables : CreateTable(PeopleFields, "id", t)
    \/ \E t \in Tables, row \in ScanRows : AddRow(t, row, TRUE)
    \/ \E t \in Tables, f \in ShardFiles : Corrupt(t, f)
    \/ \E t \in Tables, id_input \in WhereIds : GetById(t, id_input)
    \/ \E t \in Tables, id_ \in WhereIds : DeleteRowById(t, id_)
    \/ \E t \in Tables, id_ \in WhereIds, new_row \in NewRows :
            UpdateRowById(t, id_, new_row)
    \/ \E t \in Tables, id_ \in WhereIds, nf \in NewFields :
            UpdateFieldById(t, id_, nf[1], nf[2])
    \/ \E t \in Tables : GetAll(t)
    \/ \E q \in ScanFilters : GetWhere(q)
    \/ \E q \in ScanFilters : DeleteRowWhere(q)
    \/ \E qb \in Builders : Execute(qb)
    \/ \E qb \in Builders : Select(qb)
    \/ \E qb \in Builders : Exists(qb)

SpecScan == Init /\ [][NextScan]_vars

\* The people of the end-to-end scenario: a table keyed by name, made and
\* widened by migration, two rows, one query, one update, one delete.
CreateNamed ==
    Descriptor("create_table", "people", "name", [name |-> "STRING"],
               "", "", NullValue, "", "")
AddAge ==
    Descriptor("add_column", "people", "", NoFields, "age", "NUMBER",
               JsonI64(0), "", "")
Named(name) == [name |-> <<DataString(name), "">>]
NameIs(name, multi) == Filter("people", "name", DataString(name), "EQUAL", multi)
WhereNameIs(name) ==
    QueryBuilder("people", <<Cond("And", "name", "Eq", DataString(name))>>, -1, "", TRUE)
Thirty == <<DataNumber(30), "">>

NextScenario ==
    \/ GenerateCreateTableMigration(CreateNamed)
    \/ GenerateAddColumnMigration(AddAge)
    \/ ApplyMigrations
    \/ \E name \in {"alice", "bob"} : Insert("people", Named(name))
    \/ Execute(WhereNameIs("alice"))
    \/ \E multi \in BOOLEAN : UpdateFieldWhere(NameIs("alice", multi), "age", Thirty)
    \/ \E name \in {"alice", "bob"} : GetById("people", name)
    \/ \E name \in {"alice", "bob"} : DeleteRowById("people", name)
    \/ GetAll("people")

SpecScenario == Init /\ [][NextScenario]_vars

\* The migrations alone, on a table that may hold a row: descriptors that
\* name the id column, as the field to add, rename or drop and as the new
\* name of another field, and a create_table whose id column is no field.
SchemaCreates ==
    {Descriptor("create_table", "people", c, [id |-> "STRING", v |-> "NUMBER"],
                "", "", NullValue, "", "") : c \in {"id", "name"}}
SchemaAdds ==
    {Descriptor("add_column", "people", "", NoFields, d[1], "NUMBER", d[2], "", "") :
        d \in {<<"w", JsonI64(0)>>, <<"id", JsonI64(0)>>, <<"w", NullValue>>,
               <<"w", JsonString("s")>>}}
SchemaRenames ==
    {Descriptor("rename_column", "people", "", NoFields, "", "", NullValue, r[1], r[2]) :
        r \in {<<"v", "id">>, <<"id", "x">>}}
SchemaDrops ==
    {Descriptor("drop_column", "people", "", NoFields, f, "", NullValue, "", "") :
        f \in {"v", "id"}}

NextSchema ==
    \/ \E m \in SchemaCreates : GenerateCreateTableMigration(m)
    \/ \E m \in SchemaAdds : GenerateAddColumnMigration(m)
    \/ \E m \in SchemaRenames : GenerateRenameColumnMigration(m)
    \/ \E m \in SchemaDrops : GenerateDropColumnMigration(m)
    \/ \E m \in DeleteTables : GenerateDeleteTableMigration(m)
    \/ ApplyMigrations
    \/ \E row \in MigRows : AddRow("people", row, TRUE)

SpecSchema == Init /\ [][NextSchema]_vars

\* Rows written one by one and in batches, and addressed by id: three rows,
\* two of them with the same numeric id, and a batch whose second row the
\* schema refuses.
MaxBatch == 2
BatchIds == {"u58659", "u67268", "u674"}
BatchRows == {Row(id, 0) : id \in BatchIds}
RefusedBatch == <<Row("u674", 0), Row("v1", 0)>>
RECURSIVE Batches(_)
Batches(n) ==
    IF n = 0 THEN {<<>>}
    ELSE Batches(n - 1) \cup
         {Append(b, row) : b \in {c \in Batches(n - 1) : Len(c) = n - 1}, row \in BatchRows}

NextBatch ==
    \/ \E t \in Tables : CreateTable(PeopleFields, "id", t)
    \/ \E t \in Tables, row \in BatchRows, overwrite \in BOOLEAN : AddRow(t, row, overwrite)
    \/ \E t \in Tables, rows \in Batches(MaxBatch) \cup {RefusedBatch} :
        \E overwrite \in BOOLEAN : AddRows(t, rows, overwrite)
    \/ \E t \in Tables, id_input \in BatchIds : GetById(t, id_input)
    \/ \E t \in Tables, id_ \in BatchIds : DeleteRowById(t, id_)
    \/ \E t \in Tables, id_ \in BatchIds : UpdateRowById(t, id_, [v |-> <<DataNumber(1), "m">>])
    \/ \E t \in Tables, id_ \in BatchIds : UpdateFieldById(t, id_, "v", <<DataNumber(1), "m">>)

SpecBatch == Init /\ [][NextBatch]_vars

\* Rows validated against two schemas: the people schema, and one whose
\* NUMBER field carries a pattern that does not compile.
UnclosedFields == [id |-> <<"STRING", "^u">>, v |-> <<"NUMBER", "(">>]
CheckRows ==
    BadRows \cup {Row(id, 0) : id \in {"u208", "u674"}}
        \cup { [id |-> <<DataString("v1"), "">>, w |-> <<DataNumber(0), "">>],
               [v |-> <<DataNumber(0), "m">>, w |-> <<DataNumber(0), "">>] }

NextCheck ==
    \/ \E t \in Tables, fields \in {PeopleFields, UnclosedFields} :
            CreateTable(fields, "id", t)
    \/ \E t \in Tables, row \in CheckRows : CheckTypeRegex(t, row)
    \/ \E t \in Tables, row \in CheckRows, overwrite \in BOOLEAN :
            AddRow(t, row, overwrite)
    \/ \E t \in Tables, row \in CheckRows : Insert(t, row)

SpecCheck == Init /\ [][NextCheck]_vars

\* The comparisons of the value type on numbers, strings and a boolean.
CMPs == {"EQUAL", "LESS", "LESSEQ", "GREATER", "GTEQ"}
OrderValues ==
    {DataNumber(n) : n \in 0..MaxNum}
        \cup {DataString("alice"), DataString("bob"), DataBoolean(1)}

NextOrder == \E cmp \in CMPs, x \in OrderValues, y \in OrderValues : Calculate(cmp, x, y)

SpecOrder == Init /\ [][NextOrder]_vars

\* The comparators of get_where next to the operators of the builder, on a
\* NUMBER field and on a STRING field: two ids in two shard files, three
\* values of v, and a value to compare with that lies between the stored ones.
CmpRows == {Row(id, n) : id \in {"u208", "u674"}, n \in 0..(MaxNum + 1)}
CmpValues == { <<"v", DataNumber(1)>>, <<"id", DataString("u58659")>> }
CmpFilters == {Filter("people", x[1], x[2], c, TRUE) : x \in CmpValues, c \in CMPs}
Operators == {"Eq", "Lt", "Lte", "Gt", "Gte"}
CmpBuilders ==
    {QueryBuilder("people", <<Cond("And", x[1], op, x[2])>>, -1, "", TRUE) :
        x \in CmpValues, op \in Operators}

NextCmp ==
    \/ \E t \in Tables : CreateTable(PeopleFields, "id", t)
    \/ \E t \in Tables, row \in CmpRows : AddRow(t, row, TRUE)
    \/ \E q \in CmpFilters : GetWhere(q)
    \/ \E qb \in CmpBuilders : Execute(qb)

SpecCmp == Init /\ [][NextCmp]_vars

\* One caller of the updates by id, its two writes apart, with readers and
\* writers of the same rows in between.
Updater == 1
UpdRows == {Row(id, 0) : id \in {"u58659", "u208"}}

NextUpd ==
    \/ \E t \in Tables : CreateTable(PeopleFields, "id", t)
    \/ \E t \in Tables, row \in UpdRows : AddRow(t, row, TRUE)
    \/ \E t \in Tables, id_input \in {"u58659", "u208"} : GetById(t, id_input)
    \/ \E t \in Tables, id_ \in {"u58659", "u208"}, new_row \in NewRows :
            UpdateRowDelete(Updater, t, id_, new_row)
    \/ \E t \in Tables, id_ \in {"u58659", "u208"}, nf \in NewFields :
            UpdateFieldDelete(Updater, t, id_, nf[1], nf[2])
    \/ UpdateInsert(Updater)
    \/ Crash(Updater)

SpecUpd == Init /\ [][NextUpd]_vars

\* The mutations of the query builder on the rows of SpecScan.
NextBuild ==
    \/ \E t \in Tables : CreateTable(PeopleFields, "id", t)
    \/ \E t \in Tables, row \in ScanRows : AddRow(t, row, TRUE)
    \/ \E qb \in Builders : QbDelete(qb)
    \/ \E qb \in Builders : QbUpdateRow(qb, [v |-> <<DataNumber(1), "m">>])
    \/ \E qb \in Builders : QbUpdateField(qb, "v", <<DataNumber(1), "m">>)

SpecBuild == Init /\ [][NextBuild]_vars

-----------------------------------------------------------------------------
(* Properties of the calls addressed by id.                                *)

\* A row passes the table's schema.
Conforming(S, t, row) == S[t].exists /\ check_type_regex(row, S[t]) = "true"

\* The numeric id derived from a raw id is a key of the shard file that owns it.
IdStored(D, t, raw) ==
    LET id == string_to_numerical_uuid(raw)
        f == get_shard_range_(id)
    IN  /\ file_exists(D, t, f)
        /\ D[t].files[f].ok
        /\ id \in DOMAIN D[t].files[f].map

\* The number of rows of a table.
RowCount(D, t) == Cardinality(DOMAIN get_all(D, t))

\* C1 as stated: after add_row of a conforming row R, whatever the overwrite
\* flag and whatever was stored, get_by_id on R's id string returns exactly R.
C1_RoundTripAlways ==
    (last.op = "add_row" /\ Conforming(schemas, last.table, last.row))
        => get_by_id(dirs, last.table, RawIdOf(schemas, last.table, last.row))
               = Some(last.row)

\* C1: after an add_row that returned Ok, get_by_id on the string form of the
\* row's id value returns exactly that row, data and auxiliary strings alike.
C1_RoundTrip ==
    (last.op = "add_row" /\ last.res = "ok")
        => get_by_id(dirs, last.table, RawIdOf(schemas, last.table, last.row))
               = Some(last.row)

\* An add_row without overwrite has stored its row and the row reads back.
C1_Witness ==
    /\ last.op = "add_row" /\ last.res = "ok" /\ ~last.overwrite
    /\ get_by_id(dirs, last.table, RawIdOf(schemas, last.table, last.row)).row
           = last.row

\* C2: add_row with overwrite = false of a row whose derived numeric id is
\* already a key of its shard file returns an error and leaves every file as
\* it was, whether the stored row came from the same raw id or a colliding one.
C2_ConflictRefused ==
    [][(/\ last'.op = "add_row" /\ ~last'.overwrite
        /\ HasRawId(schemas, last'.table, last'.row)
        /\ IdStored(dirs, last'.table, RawIdOf(schemas, last'.table, last'.row)))
          => (last'.res = "err" /\ dirs' = dirs)]_vars

\* A conforming row was refused because a row with another raw id and the
\* same numeric id is stored.
C2_Witness ==
    /\ last.op = "add_row" /\ ~last.overwrite /\ last.res = "err"
    /\ Conforming(schemas, last.table, last.row)
    /\ LET got == get_by_id(dirs, last.table, RawIdOf(schemas, last.table, last.row))
       IN  /\ got.some
           /\ RawIdOf(schemas, last.table, got.row)
                  # RawIdOf(schemas, last.table, last.row)

\* C3: add_row with overwrite = true of a conforming row whose derived id is
\* stored succeeds, get_by_id then returns the new row only, and the table
\* has as many rows as before.
C3_OverwriteReplaces ==
    [][(/\ last'.op = "add_row" /\ last'.overwrite
        /\ Conforming(schemas, last'.table, last'.row)
        /\ IdStored(dirs, last'.table, RawIdOf(schemas, last'.table, last'.row)))
          => (/\ last'.res = "ok"
              /\ get_by_id(dirs', last'.table,
                           RawIdOf(schemas, last'.table, last'.row)) = Some(last'.row)
              /\ RowCount(dirs', last'.table) = RowCount(dirs, last'.table))]_vars

\* An overwriting add_row has replaced a stored row.
C3_Witness ==
    /\ last.op = "add_row" /\ last.overwrite /\ last.present /\ last.res = "ok"
    /\ IdStored(dirs, last.table, RawIdOf(schemas, last.table, last.row))

\* C4: after delete_row_by_id of a stored id, get_by_id returns None for it;
\* delete_row_by_id of an id that is not stored, a second delete of the same
\* id included, returns None and changes no file.
C4_DeleteIdempotent ==
    [][last'.op = "delete_row_by_id"
          => IF IdStored(dirs, last'.table, last'.id)
             THEN /\ last'.res = "some"
                  /\ get_by_id(dirs', last'.table, last'.id) = None
             ELSE last'.res = "none" /\ dirs' = dirs]_vars

\* A stored row has been deleted and its id no longer reads.
C4_Witness ==
    /\ last.op = "delete_row_by_id" /\ last.present /\ last.res = "some"
    /\ ~IdStored(dirs, last.table, last.id)

\* The raw id a call targets, when it has one.
TargetsRawId(S, c) ==
    \/ c.op = "delete_row_by_id"
    \/ c.op = "add_row" /\ HasRawId(S, c.table, c.row)
TargetRawId(S, c) ==
    IF c.op = "add_row" THEN RawIdOf(S, c.table, c.row) ELSE c.id

\* C5: add_row and delete_row_by_id on one id leave what get_by_id returns
\* for every other id of the same shard file with another numeric id as it was.
C5_ShardFrame ==
    [][\A o \in RawIds :
        (/\ TargetsRawId(schemas, last')
         /\ string_to_numerical_uuid(o)
                # string_to_numerical_uuid(TargetRawId(schemas, last'))
         /\ get_shard_range_(string_to_numerical_uuid(o))
                = get_shard_range_(string_to_numerical_uuid(TargetRawId(schemas, last'))))
          => get_by_id(dirs', last'.table, o) = get_by_id(dirs, last'.table, o)]_vars

\* A row was added to a shard file that holds a row with another numeric id.
C5_Witness ==
    /\ last.op = "add_row" /\ last.res = "ok"
    /\ RawIdOf(schemas, last.table, last.row) = "u58659"
    /\ IdStored(dirs, last.table, "u208")
    /\ get_shard_range_(string_to_numerical_uuid("u208"))
           = get_shard_range_(string_to_numerical_uuid("u58659"))

-----------------------------------------------------------------------------
(* Properties of the stored rows under every call.                         *)

\* The rows a table's readable shard files hold, as <<file, key, row>>.
Entries(D, t) ==
    LET held == {p \in (DOMAIN D[t].files) \X StoredIds(D, t) :
                    /\ D[t].files[p[1]].ok
                    /\ p[2] \in DOMAIN D[t].files[p[1]].map}
    IN  {<<p[1], p[2], D[t].files[p[1]].map[p[2]]>> : p \in held}

\* C9: whatever calls were made, every stored row of a table with a schema
\* has exactly the schema's fields, each value of the declared type.
C9_StoredRowsConform ==
    \A t \in Tables :
        schemas[t].exists =>
            \A e \in Entries(dirs, t) :
                /\ DOMAIN e[3] = DOMAIN schemas[t].field_names
                /\ \A fn \in DOMAIN e[3] :
                       data_eq_type(e[3][fn][1], schemas[t].field_names[fn][1])

\* C10: whatever calls were made, every stored row is keyed by the numeric id
\* derived from the string form of its own id value, in the file owning it.
C10_KeyedByOwnId ==
    \A t \in Tables :
        schemas[t].exists =>
            \A e \in Entries(dirs, t) :
                /\ HasRawId(schemas, t, e[3])
                /\ e[2] = string_to_numerical_uuid(RawIdOf(schemas, t, e[3]))
                /\ e[1] = get_shard_range_(e[2])

-----------------------------------------------------------------------------
(* Properties of the migration runs.                                       *)

\* C6: once apply_migrations has returned Ok and no migration file was added
\* since, another apply_migrations returns Ok, applies no operation and
\* leaves every shard file, every schema file and the ledger as they were.
C6_SecondRunNoOp ==
    [][(settled /\ last'.op = "apply_migrations")
          => (/\ last'.res = "ok"
              /\ executed' = executed
              /\ dirs' = dirs
              /\ schemas' = schemas
              /\ applied' = applied)]_vars

\* A second run was made after a run that applied every migration file.
C6_Witness ==
    /\ last.op = "apply_migrations" /\ last.present /\ last.res = "ok"
    /\ Len(migrations) > 0
    /\ applied = 1..Len(migrations)
    /\ \A i \in 1..Len(migrations) : executed[i] = 1

\* C7: over any sequence of apply_migrations runs, failed ones included, the
\* operation of each migration file completes at most once.
C7_AtMostOnce == \A i \in 1..Len(migrations) : executed[i] <= 1

-----------------------------------------------------------------------------
(* Properties of concurrent callers.                                       *)

\* C8: when two callers' add_row calls for rows with distinct derived ids of
\* one shard file have both returned Ok, both ids are stored in that file.
C8_NoLostUpdate ==
    \A w1, w2 \in Writers :
        (/\ w1 # w2
         /\ writers[w1].pc = "returned" /\ writers[w1].res = "ok"
         /\ writers[w2].pc = "returned" /\ writers[w2].res = "ok"
         /\ writers[w1].table = writers[w2].table
         /\ writers[w1].id # writers[w2].id
         /\ writers[w1].filename = writers[w2].filename)
          => LET stored == from_str(dirs[writers[w1].table].files[writers[w1].filename]).map
             IN  {writers[w1].id, writers[w2].id} \subseteq DOMAIN stored

-----------------------------------------------------------------------------
(* The end-to-end scenario, under SpecScenario.                            *)

\* The row get_by_id returns for a name has the field with the number n.
HasNumber(D, name, field, n) ==
    LET r == get_by_id(D, "people", name)
    IN  r.some /\ field \in DOMAIN r.row /\ r.row[field][1] = DataNumber(n)

\* The add_column of age is among the migrations this step has applied.
AppliesAddAge ==
    /\ last'.op = "apply_migrations"
    /\ \E i \in applied' \ applied : migrations[i] = AddAge

\* C11: in the people table keyed by name, made by a create_table migration:
\* with alice and bob stored, the query where name Eq "alice" returns exactly
\* one row; an applied add_column of age, NUMBER, default 0, leaves
\* get_by_id("alice") with age 0 when alice was stored without an age;
\* update_field_where(name == "alice", age, 30) leaves get_by_id("alice")
\* with age 30; and delete_row_by_id("bob") leaves get_all with the row of
\* alice alone.
C11_Scenario ==
    [][ /\ ( /\ last'.op = "execute"
             /\ last'.arg = WhereNameIs("alice")
             /\ get_by_id(dirs, "people", "alice").some
             /\ get_by_id(dirs, "people", "bob").some )
           => ( /\ Len(last'.out) = 1
                /\ last'.out[1].name[1] = DataString("alice") )
        /\ ( /\ AppliesAddAge
             /\ get_by_id(dirs, "people", "alice").some
             /\ "age" \notin DOMAIN get_by_id(dirs, "people", "alice").row )
           => HasNumber(dirs', "alice", "age", 0)
        /\ ( /\ \E multi \in BOOLEAN :
                    UpdateFieldWhere(NameIs("alice", multi), "age", Thirty)
             /\ get_by_id(dirs, "people", "alice").some )
           => HasNumber(dirs', "alice", "age", 30)
        /\ ( /\ last'.op = "delete_row_by_id"
             /\ last'.id = "bob"
             /\ get_by_id(dirs, "people", "alice").some )
           => ( /\ DOMAIN get_all(dirs', "people") = {string_to_numerical_uuid("alice")}
                /\ get_by_id(dirs', "people", "alice").row.name[1] = DataString("alice") )
      ]_vars

\* The scenario has run to its end: both migrations applied, the age of
\* alice set to 30, and bob, who was stored, deleted.
C11_Witness ==
    /\ applied = {1, 2}
    /\ migrations = <<CreateNamed, AddAge>>
    /\ HasNumber(dirs, "alice", "age", 30)
    /\ last.op = "delete_row_by_id" /\ last.id = "bob" /\ last.res = "some"
    /\ DOMAIN get_all(dirs, "people") = {string_to_numerical_uuid("alice")}

-----------------------------------------------------------------------------
(* Properties of the migrations' effects, under SpecMig.                   *)

\* The run of this step completed, and file i is the one migration it
\* executed.
RunsOnly(i) ==
    /\ last'.op = "apply_migrations"
    /\ last'.res = "ok"
    /\ i \in DOMAIN executed
    /\ executed' = [executed EXCEPT ![i] = @ + 1]

\* The rows stored in a table, by shard file and key.
StoredRows(D, t) ==
    LET held == {p \in (DOMAIN D[t].files) \X StoredIds(D, t) :
                    /\ D[t].files[p[1]].ok
                    /\ p[2] \in DOMAIN D[t].files[p[1]].map}
    IN  [p \in held |-> D[t].files[p[1]].map[p[2]]]

\* C12: a completed add_column of F with a string, number or boolean default,
\* on a table none of whose stored rows has F, leaves the same rows under the
\* same keys in the same files, each with F holding the default as a Data
\* value and with every other field as it was, and the schema's field map
\* holds F with the given type.
C12_AddColumnCoverage ==
    [][ \A i \in DOMAIN migrations :
          LET m == migrations[i]
              t == m.table
              before == StoredRows(dirs, t)
              after == StoredRows(dirs', t)
          IN  ( /\ RunsOnly(i)
                /\ m.operation = "add_column"
                /\ \A e \in DOMAIN before : m.field \notin DOMAIN before[e] )
              => ( /\ DOMAIN after = DOMAIN before
                   /\ \A e \in DOMAIN before :
                        /\ DOMAIN after[e] = DOMAIN before[e] \cup {m.field}
                        /\ after[e][m.field][1] = default_data(m.default)
                        /\ \A f \in DOMAIN before[e] : after[e][f] = before[e][f]
                   /\ schemas'[t].exists
                   /\ m.field \in DOMAIN schemas'[t].field_names
                   /\ schemas'[t].field_names[m.field][1] = m.datatype )
      ]_vars

\* A completed run has given the two stored rows the boolean default of w.
C12_Witness ==
    /\ last.op = "apply_migrations" /\ last.res = "ok"
    /\ Len(migrations) = 1 /\ executed = <<1>>
    /\ migrations[1].operation = "add_column"
    /\ Cardinality(DOMAIN StoredRows(dirs, "people")) = 2
    /\ \A e \in DOMAIN StoredRows(dirs, "people") :
            StoredRows(dirs, "people")[e].w[1] = DataBoolean(1)

-----------------------------------------------------------------------------
(* Properties of the scans and of the query builder, under SpecScan.       *)

\* A row satisfies one condition of a builder.
Satisfies(row, cond) ==
    cond.field \in DOMAIN row /\ compare(cond.op, row[cond.field][1], cond.value)

\* The rows of a returned sequence, as a set.
Returned(out) == {out[i] : i \in 1..Len(out)}

\* C13: execute() on a builder made as where_(A).or(B) returns every stored
\* row that satisfies A or satisfies B.
C13_OrIsGenuine ==
    [][ ( /\ last'.op = "execute"
          /\ Len(last'.arg.conditions) = 2
          /\ last'.arg.conditions[2].logic = "Or" )
        => \A e \in DOMAIN StoredRows(dirs, last'.table) :
              LET row == StoredRows(dirs, last'.table)[e]
              IN  ( \/ Satisfies(row, last'.arg.conditions[1])
                    \/ Satisfies(row, last'.arg.conditions[2]) )
                  => row \in Returned(last'.out)
      ]_vars

\* C14: for every builder and every stored table, in whatever order the
\* files and their rows are met, select() and execute() return the same
\* rows, as many of them.
C14_SelectIsExecute ==
    \A qb \in Builders :
        \A keys \in ScanOrders(dirs, qb.table) :
            \A table_keys \in Orders(StoredIds(dirs, qb.table)) :
                LET e == execute(dirs, qb, keys)
                    g == select(dirs, qb, table_keys)
                IN  Returned(g) = Returned(e) /\ Len(g) = Len(e)

-----------------------------------------------------------------------------
(* Properties of the outcomes of calls.                                    *)

\* C15: no call ends in a panic; every refusal is returned to the caller.
C15_NoPanic == last.res # "panic"

\* The shard file that owns a raw id exists and cannot be parsed.
OwningShardCorrupt(D, t, raw) ==
    LET filename == get_shard_range(string_to_numerical_uuid(raw))
    IN  file_exists(D, t, filename) /\ ~from_str(D[t].files[filename]).ok

\* C16: a call by id whose owning shard file exists and cannot be parsed
\* does not return what it returns for an id that is not stored.
C16_CorruptIsNotAbsent ==
    [][ ( /\ last'.op \in {"get_by_id", "delete_row_by_id", "update_row_by_id",
                          "update_field_by_id"}
          /\ OwningShardCorrupt(dirs, last'.table, last'.id) )
        => last'.res # "none"
      ]_vars

\* Some shard file of the table cannot be parsed.
SomeShardCorrupt(D, t) == \E f \in DOMAIN D[t].files : ~D[t].files[f].ok

\* The <<id, row>> pairs and the rows held by the files that can be parsed.
PairsIn(D, t) == {<<p[2], StoredRows(D, t)[p]>> : p \in DOMAIN StoredRows(D, t)}
RowsIn(D, t) == {p[2] : p \in PairsIn(D, t)}

\* The pairs a filter picks, and the rows a builder picks.
FilterHits(D, q) ==
    {p \in PairsIn(D, q.tablename) :
        row_matches(p[2], q.fieldname, q.fieldvalue, q.cmp)}
BuilderHits(D, qb) ==
    {row \in RowsIn(D, qb.table) :
        \A i \in 1..Len(qb.conditions) : Satisfies(row, qb.conditions[i])}

\* What delete_row_where leaves of one parseable file: all rows but the
\* hits, or all rows but one hit when the filter is not multi.
FileSwept(before, after, q) ==
    LET hits == {k \in DOMAIN before.map :
                    row_matches(before.map[k], q.fieldname, q.fieldvalue, q.cmp)}
    IN  /\ after.ok
        /\ \A k \in DOMAIN after.map : k \in DOMAIN before.map /\ after.map[k] = before.map[k]
        /\ IF q.multi \/ hits = {} THEN DOMAIN after.map = DOMAIN before.map \ hits
           ELSE \E k \in hits : DOMAIN after.map = DOMAIN before.map \ {k}

\* C17: with a shard file of the table unparseable, get_all returns exactly
\* the rows of the other files; get_where and execute return the matching
\* rows of the other files (all of them, or as many as multi and the limit
\* allow); exists answers for the rows of the other files; delete_row_where
\* removes the matching rows of every other file and leaves the rest.
C17_ScansSkipCorrupt ==
    [][ LET t == last'.table
            arg == last'.arg
            out == last'.out
        IN  (t \in Tables /\ SomeShardCorrupt(dirs, t)) =>
            /\ last'.op = "get_all" =>
                  {<<k, out[k]>> : k \in DOMAIN out} = PairsIn(dirs, t)
            /\ last'.op = "get_where" =>
                  /\ Returned(out) \subseteq FilterHits(dirs, arg)
                  /\ arg.multi => Returned(out) = FilterHits(dirs, arg)
                  /\ FilterHits(dirs, arg) # {} => Len(out) >= 1
            /\ last'.op = "execute" =>
                  /\ Returned(out) \subseteq BuilderHits(dirs, arg)
                  /\ arg.limit < 0 => Returned(out) = BuilderHits(dirs, arg)
                  /\ arg.limit >= 0 =>
                        \/ Len(out) = arg.limit
                        \/ Returned(out) = BuilderHits(dirs, arg)
            /\ last'.op = "exists" =>
                  (last'.res = "true") = (BuilderHits(dirs, arg) # {})
            /\ last'.op = "delete_row_where" =>
                  \A f \in DOMAIN dirs[t].files :
                      IF dirs[t].files[f].ok
                      THEN FileSwept(dirs[t].files[f], dirs'[t].files[f], arg)
                      ELSE dirs'[t].files[f] = dirs[t].files[f]
      ]_vars

\* With a shard file of the table unparseable, a scan has returned a row of
\* another file.
C17_Witness ==
    /\ last.op \in {"get_all", "get_where", "execute"}
    /\ SomeShardCorrupt(dirs, "people")
    /\ last.out # <<>>
    /\ PairsIn(dirs, "people") # {}

-----------------------------------------------------------------------------
(* Properties of the tables and their schemas.                             *)

\* C18: create_table with an id_field that is no key of fields, or for a
\* table whose directory exists, returns an error and leaves every directory,
\* file and schema as it was; otherwise it returns Ok and the directory, the
\* seed file holding an empty map, and the schema of the name, the id column
\* and the fields exist.
C18_CreateTableContract ==
    [][ last'.op = "create_table" =>
          LET name == last'.table
              id_field == last'.id
          IN  IF id_field \notin DOMAIN PeopleFields \/ dirs[name].exists
              THEN /\ last'.res = "err"
                   /\ schemas' = schemas
                   /\ dirs' = dirs
              ELSE /\ last'.res = "ok"
                   /\ dirs'[name].exists
                   /\ file_exists(dirs', name, SeedFile)
                   /\ from_str(dirs'[name].files[SeedFile]) = [ok |-> TRUE, map |-> EmptyMap]
                   /\ schemas'[name] = [exists |-> TRUE, name |-> name,
                                        id_column |-> id_field,
                                        field_names |-> PeopleFields]
      ]_vars

\* create_table has been refused for a table that holds a row.
C18_Witness ==
    /\ last.op = "create_table" /\ last.res = "err" /\ last.id = "id"
    /\ RowCount(dirs, "people") >= 1

\* C19: whatever migrations were run, and however they ended, the id column
\* of every schema file that exists is a key of its field map.
C19_IdColumnIsField ==
    \A t \in Tables :
        schemas[t].exists => schemas[t].id_column \in DOMAIN schemas[t].field_names

\* A run has ended in the refusal to drop the id column of a table that
\* holds a row.
C19_Witness ==
    /\ last.op = "apply_migrations" /\ last.res = "err"
    /\ schemas["people"].exists
    /\ RowCount(dirs, "people") >= 1
    /\ migrations # <<>>
    /\ migrations[Len(migrations)].operation = "drop_column"
    /\ migrations[Len(migrations)].field = schemas["people"].id_column
    /\ \A i \in 1..(Len(migrations) - 1) : i \in applied \/ executed[i] > 0

-----------------------------------------------------------------------------
(* Properties of the addressing of rows, under SpecBatch.                  *)

\* The rows a completed add_row or add_rows step has written, in order.
Written(call) == IF call.op = "add_row" THEN <<call.row>> ELSE call.arg[1]

\* Every path that takes the raw id finds the row a writer stored under it:
\* the reader returns it, the deleter removes it, the updaters change it.
AddressedAlike(S, D, t, raw, row) ==
    LET k == string_to_numerical_uuid(raw)
        f == get_shard_range_(k)
        del == delete_row_by_id(D, t, raw)
        upr == update_row_by_id(S, D, t, raw, [v |-> <<DataNumber(1), "m">>])
        upf == update_field_by_id(S, D, t, raw, "v", <<DataNumber(1), "m">>)
    IN  /\ get_shard_range(k) = f
        /\ get_file_by_id(k) = f
        /\ file_exists(D, t, f)
        /\ k \in DOMAIN D[t].files[f].map
        /\ D[t].files[f].map[k] = row
        /\ get_by_id(D, t, raw) = Some(row)
        /\ del.got = Some(row)
        /\ ~get_by_id(del.D, t, raw).some
        /\ k \notin StoredIds(del.D, t)
        /\ upr.res = "some"
        /\ get_by_id(upr.D, t, raw).row.v[1] = DataNumber(1)
        /\ upf.res = "some"
        /\ get_by_id(upf.D, t, raw).row.v[1] = DataNumber(1)
        /\ StoredIds(upr.D, t) = StoredIds(D, t)
        /\ StoredIds(upf.D, t) = StoredIds(D, t)

\* C20: the numeric id is a function of the raw id alone, and the row that
\* add_row or add_rows has stored for a raw id is found under the same key in
\* the same shard file by get_by_id, delete_row_by_id, update_row_by_id and
\* update_field_by_id given that raw id.
C20_OneDerivation ==
    [][ ( /\ last'.op \in {"add_row", "add_rows"}
          /\ last'.res = "ok" )
        => LET rows == Written(last')
               t == last'.table
               raw(i) == RawIdOf(schemas, t, rows[i])
               last_of(i) == \A j \in (i + 1)..Len(rows) :
                                string_to_numerical_uuid(raw(j)) #
                                string_to_numerical_uuid(raw(i))
           IN  \A i \in 1..Len(rows) :
                  last_of(i) => AddressedAlike(schemas, dirs', t, raw(i), rows[i])
      ]_vars

\* A batch of two rows has gone to two shard files.
C20_Witness ==
    /\ last.op = "add_rows" /\ last.res = "ok"
    /\ Len(last.arg[1]) = 2
    /\ get_by_id(dirs, "people", "u58659") = Some(Row("u58659", 0))
    /\ get_by_id(dirs, "people", "u674") = Some(Row("u674", 0))
    /\ last.arg[1] = <<Row("u58659", 0), Row("u674", 0)>>

-----------------------------------------------------------------------------
(* Properties of delete_table, under SpecMig.                              *)

\* The migrations a run of apply_migrations would execute.
Pending == {i \in DOMAIN migrations : i \notin applied}

\* C21: a run whose pending migrations are all delete_table completes,
\* whether or not the schema file of the table exists, and leaves every
\* schema file as it was.
C21_DeleteTableLeavesSchema ==
    [][ ( /\ last'.op = "apply_migrations"
          /\ Pending # {}
          /\ \A i \in Pending : migrations[i].operation = "delete_table" )
        => ( /\ last'.res = "ok"
             /\ schemas' = schemas
             /\ \A i \in Pending : ~dirs'[migrations[i].table].exists )
      ]_vars

-----------------------------------------------------------------------------
(* Properties of the updates by id, under Spec.                            *)

\* The rows a table stores, whatever their keys.
RowsStored(D, t) == {get_all(D, t)[k] : k \in DOMAIN get_all(D, t)}

\* C22: an update by id of a stored row leaves the table with no fewer rows,
\* and with either the original row still stored under its id or a row that
\* was not stored before.
C22_UpdateKeepsRow ==
    [][ ( /\ last'.op \in {"update_row_by_id", "update_field_by_id"}
          /\ get_by_id(dirs, last'.table, last'.id).some )
        => ( /\ RowCount(dirs', last'.table) >= RowCount(dirs, last'.table)
             /\ \/ get_by_id(dirs', last'.table, last'.id)
                       = get_by_id(dirs, last'.table, last'.id)
                \/ RowsStored(dirs', last'.table) \ RowsStored(dirs, last'.table) # {} )
      ]_vars

-----------------------------------------------------------------------------
(* Properties of the two writes of an update, under SpecUpd.               *)

\* C23: the first write of an update by id of a stored row only removes the
\* old entry: afterwards no file holds the key, get_by_id finds nothing, and
\* no row was added; the merged row is stored by the second write alone, and
\* a crash in between leaves the files as the first write left them.
C23_UpdateIsTwoWrites ==
    [][ \A w \in Writers :
          LET c == writers'[w]
          IN  /\ (writers[w].pc # "deleted" /\ c.pc = "deleted")
                 => ( /\ c.id \in StoredIds(dirs, c.table)
                      /\ c.id \notin StoredIds(dirs', c.table)
                      /\ RowsStored(dirs', c.table) = RowsStored(dirs, c.table) \ {c.data} )
              /\ (writers[w].pc = "deleted" /\ c.pc = "returned")
                 => dirs' = add_row(schemas, dirs, c.table, c.row, TRUE).D
              /\ (writers[w].pc = "deleted" /\ c.pc = "crashed") => dirs' = dirs
      ]_vars

\* Between the two writes a reader has asked for the id and found nothing.
C23_Witness ==
    /\ writers[Updater].pc = "deleted"
    /\ last.op = "get_by_id" /\ last.res = "none"
    /\ string_to_numerical_uuid(last.id) = writers[Updater].id
    /\ writers[Updater].data \notin RowsStored(dirs, "people")
    /\ writers[Updater].row \notin RowsStored(dirs, "people")

-----------------------------------------------------------------------------
(* Properties of the mutations of the query builder, under SpecBuild.      *)

\* The rows of a table by key, and those a builder picks.
Picked(D, qb) ==
    {k \in DOMAIN get_all(D, qb.table) :
        \A i \in 1..Len(qb.conditions) : Satisfies(get_all(D, qb.table)[k], qb.conditions[i])}

\* C24: after delete() no stored row satisfies all the predicates and every
\* other row is as it was; after update_field(f, v) or update_row(new_row)
\* every row that satisfied the predicates carries the new values and every
\* other row is as it was.
C24_MutationsHitMatches ==
    [][ LET qb == last'.arg[1]
            t == last'.table
            before == get_all(dirs, t)
            after == get_all(dirs', t)
            others == DOMAIN before \ Picked(dirs, qb)
        IN  /\ last'.op = "delete" =>
                  /\ Picked(dirs', qb) = {}
                  /\ \A k \in others : k \in DOMAIN after /\ after[k] = before[k]
            /\ last'.op = "update_field" =>
                  /\ \A k \in Picked(dirs, qb) :
                        /\ k \in DOMAIN after
                        /\ after[k] = MapInsert(before[k], last'.arg[2], last'.arg[3])
                  /\ \A k \in others : k \in DOMAIN after /\ after[k] = before[k]
            /\ last'.op = "update_row" =>
                  /\ \A k \in Picked(dirs, qb) :
                        /\ k \in DOMAIN after
                        /\ after[k] = Merge(before[k], last'.arg[2])
                  /\ \A k \in others : k \in DOMAIN after /\ after[k] = before[k]
      ]_vars

-----------------------------------------------------------------------------
(* Properties of delete_row_where, under SpecScan.                         *)

\* C25: delete_row_where with multi = false removes at most one row of the
\* table; with multi = true it removes every matching row of the files it
\* can read, and no other.
C25_SingleDeleteRemovesOne ==
    [][ last'.op = "delete_row_where" =>
          LET q == last'.arg
              t == last'.table
          IN  IF q.multi
              THEN PairsIn(dirs', t) = PairsIn(dirs, t) \ FilterHits(dirs, q)
              ELSE /\ PairsIn(dirs', t) \subseteq PairsIn(dirs, t)
                   /\ Cardinality(PairsIn(dirs, t) \ PairsIn(dirs', t)) <= 1
      ]_vars

-----------------------------------------------------------------------------
(* Properties of execute, under SpecScan.                                  *)

\* The builder was made with where_, and, filter alone.
AndOnly(qb) == \A i \in 1..Len(qb.conditions) : qb.conditions[i].logic = "And"

\* C26: execute() of a builder with AND-only predicates and no limit returns
\* exactly the rows of the readable shard files that satisfy every
\* predicate, each once; a row without the field of a predicate is not
\* returned, and with no predicate every row is.
C26_ExecuteIsConjunction ==
    [][ ( /\ last'.op = "execute"
          /\ AndOnly(last'.arg)
          /\ last'.arg.limit < 0 )
        => ( /\ Returned(last'.out) = BuilderHits(dirs, last'.arg)
             /\ Len(last'.out) = Cardinality(Returned(last'.out))
             /\ \A i \in 1..Len(last'.out), j \in 1..Len(last'.arg.conditions) :
                    last'.arg.conditions[j].field \in DOMAIN last'.out[i]
             /\ last'.arg.conditions = <<>> =>
                    Returned(last'.out) = RowsIn(dirs, last'.table) )
      ]_vars

\* A query for v = 0 has returned a row and left out one with v = 1.
C26_Witness ==
    /\ last.op = "execute"
    /\ last.arg.conditions = <<Cond("And", "v", "Eq", DataNumber(0))>>
    /\ Len(last.out) >= 1
    /\ RowsIn(dirs, "people") \ Returned(last.out) # {}

\* The place of a row in the order of the values of field f: the number of a
\* NUMBER, the rank of a STRING.
SortKey(row, f) ==
    IF row[f][1].tag = "NUMBER" THEN row[f][1].n ELSE StringRank(row[f][1].s)

\* Every one of the rows holds a NUMBER in f, or every one holds a STRING.
OneTagIn(rows, f) ==
    \/ \A row \in rows : f \in DOMAIN row /\ row[f][1].tag = "NUMBER"
    \/ \A row \in rows : f \in DOMAIN row /\ row[f][1].tag = "STRING"

\* a comes no later than b in the direction asked for.
NotAfter(qb, a, b) ==
    IF qb.sort_ascending
    THEN SortKey(a, qb.sort_field) <= SortKey(b, qb.sort_field)
    ELSE SortKey(a, qb.sort_field) >= SortKey(b, qb.sort_field)

\* C27: execute() with sort_by(f, ascending) and limit(n), when the matching
\* rows all hold a NUMBER (or all a STRING) in f, returns min(n, number of
\* matching rows) matching rows in non-decreasing (descending: non-increasing)
\* order of f, and every returned row precedes or ties every matching row
\* that was cut off.
C27_SortThenLimit ==
    [][ ( /\ last'.op = "execute"
          /\ last'.arg.sort_field # ""
          /\ last'.arg.limit >= 0
          /\ OneTagIn(BuilderHits(dirs, last'.arg), last'.arg.sort_field) )
        => LET qb == last'.arg
               out == last'.out
               hits == BuilderHits(dirs, qb)
               n == Cardinality(hits)
           IN  /\ Len(out) = IF qb.limit < n THEN qb.limit ELSE n
               /\ Returned(out) \subseteq hits
               /\ Cardinality(Returned(out)) = Len(out)
               /\ \A i \in 1..Len(out), j \in 1..Len(out) :
                      i < j => NotAfter(qb, out[i], out[j])
               /\ \A i \in 1..Len(out) : \A row \in hits \ Returned(out) :
                      NotAfter(qb, out[i], row)
      ]_vars

\* A query sorted by v ascending with limit 1 has returned a row with v = 0
\* while a row with v = 1 is stored.
C27_Witness ==
    /\ last.op = "execute"
    /\ last.arg.sort_field = "v" /\ last.arg.sort_ascending /\ last.arg.limit = 1
    /\ Len(last.out) = 1
    /\ last.out[1].v[1] = DataNumber(0)
    /\ \E row \in RowsIn(dirs, "people") : row.v[1] = DataNumber(1)

-----------------------------------------------------------------------------
(* Properties of the batch insert, under SpecBatch.                        *)

\* add_row called for each row of a batch in batch order, stopping at the
\* first call that does not return Ok.
RECURSIVE AddRowEach(_, _, _, _, _, _)
AddRowEach(S, D, t, rows, i, overwrite) ==
    IF i > Len(rows) THEN [res |-> "ok", D |-> D]
    ELSE LET r == add_row(S, D, t, rows[i], overwrite)
         IN  IF r.res # "ok" THEN r
             ELSE AddRowEach(S, r.D, t, rows, i + 1, overwrite)

\* The shard files the rows of a batch belong to.
ShardsOf(rows) ==
    {get_shard_range_(string_to_numerical_uuid(rows[i].id[1].s)) : i \in 1..Len(rows)}

-----------------------------------------------------------------------------
(* Properties of the shard addressing, under Spec.                         *)

\* The number a sequence of decimal digits denotes.
RECURSIVE DigitsValue(_)
DigitsValue(d) ==
    IF d = <<>> THEN 0 ELSE 10 * DigitsValue(SubSeq(d, 1, Len(d) - 1)) + d[Len(d)]

\* floor(n / 10^7) and n mod 10^7 of the number n that the digits d denote.
ShardSpan == 10 ^ ShardWidth
Quot7(d) == DigitsValue(SubSeq(d, 1, saturating_sub(Len(d), ShardWidth)))
Rem7(d) == DigitsValue(SubSeq(d, saturating_sub(Len(d), ShardWidth) + 1, Len(d)))

\* a <= b as numbers.
NumLeq(a, b) ==
    \/ Quot7(a) < Quot7(b)
    \/ Quot7(a) = Quot7(b) /\ Rem7(a) <= Rem7(b)

\* b - a = 10^7 - 1 as numbers.
SpansShard(a, b) ==
    \/ Quot7(b) = Quot7(a) /\ Rem7(b) - Rem7(a) = ShardSpan - 1
    \/ Quot7(b) = Quot7(a) + 1 /\ Rem7(b) - Rem7(a) = -1

\* The numeric ids in play: those of the stored rows and that of the raw id
\* the last call was given.
Addressed ==
    UNION {StoredIds(dirs, t) : t \in Tables}
        \cup (IF last.id \in RawIds THEN {string_to_numerical_uuid(last.id)} ELSE {})

\* C29: for every numeric id n the shard file chosen is named by a range
\* [start, end] with start <= n <= end and end - start = 10^7 - 1; two ids
\* get the same file iff floor(n / 10^7) is the same for both; and
\* get_shard_range_, get_shard_range and get_file_by_id name the same file,
\* ids of seven or fewer digits included.
C29_ShardAddressing ==
    /\ \A n \in Addressed :
           LET range == get_shard_range_(n)
           IN  /\ NumLeq(range[1], n) /\ NumLeq(n, range[2])
               /\ SpansShard(range[1], range[2])
               /\ get_shard_range(n) = range
               /\ get_file_by_id(n) = range
    /\ \A n \in Addressed, m \in Addressed :
           get_shard_range_(n) = get_shard_range_(m) <=> Quot7(n) = Quot7(m)

\* Rows are stored under an id of six digits and under two ids of nine
\* digits that have one shard file.
C29_Witness ==
    /\ <<1, 8, 9, 2, 5, 5>> \in StoredIds(dirs, "people")
    /\ <<9, 2, 8, 7, 1, 6, 7, 3, 7>> \in StoredIds(dirs, "people")
    /\ <<9, 2, 5, 1, 5, 8, 6, 5, 1>> \in StoredIds(dirs, "people")

-----------------------------------------------------------------------------
(* Properties of row validation, under SpecCheck.                          *)

\* The row has the fields of the schema and no other, every value has the
\* declared tag, and every STRING value matches the pattern declared for it.
Conforms(row, types) ==
    /\ DOMAIN row = DOMAIN types.field_names
    /\ \A f \in DOMAIN row :
           /\ row[f][1].tag = types.field_names[f][1]
           /\ ( row[f][1].tag = "STRING" /\ types.field_names[f][2] # "" )
                  => re_is_match(types.field_names[f][2], row[f][1].s)

\* The number of fields differs, or a field of the row has another tag than
\* the declared one or a string the declared pattern does not match.
Mismatches(row, types) ==
    \/ Cardinality(DOMAIN row) # Cardinality(DOMAIN types.field_names)
    \/ \E f \in DOMAIN row \cap DOMAIN types.field_names :
           \/ row[f][1].tag # types.field_names[f][1]
           \/ /\ row[f][1].tag = "STRING" /\ types.field_names[f][2] # ""
              /\ ~re_is_match(types.field_names[f][2], row[f][1].s)

\* C30: check_type_regex(row, schema) returns true iff the row conforms; it
\* returns false when the field count differs or a tag or pattern
\* mismatches; it is an error only when a field of the schema is absent from
\* the row; and the outcome for a given row and schema is always the same.
C30_ValidationFailsClosed ==
    last.op = "check_type_regex" =>
        LET row == last.row
            types == schemas[last.table]
        IN  /\ last.res = "true" <=> Conforms(row, types)
            /\ Mismatches(row, types) => last.res = "false"
            /\ last.res = "err" =>
                   \E f \in DOMAIN types.field_names : f \notin DOMAIN row
            /\ \A fields \in Orders(DOMAIN types.field_names) :
                   check_type_regex_in(row, types, fields, 1) = last.res

-----------------------------------------------------------------------------
(* Properties of the migration run, under SpecMig.                         *)

\* The i-th migration file completed in the step.
CompletedNow(i) == executed'[i] = executed[i] + 1

\* C31: within one apply_migrations() run the files named in the ledger are
\* skipped, the others are applied in ascending order of file name, and once
\* one has failed no file that sorts after it is applied in that run.
C31_RunInFileOrder ==
    [][ last'.op = "apply_migrations"
        => /\ \A i \in 1..Len(migrations) :
                  /\ i \in applied => executed'[i] = executed[i]
                  /\ executed'[i] = executed[i] \/ CompletedNow(i)
           /\ \A i \in 1..Len(migrations), j \in 1..Len(migrations) :
                  ( i < j /\ i \notin applied /\ CompletedNow(j) ) => CompletedNow(i)
           /\ last'.res = "ok" =>
                  \A i \in 1..Len(migrations) : i \notin applied => CompletedNow(i)
           /\ last'.res # "ok" =>
                  \E i \in 1..Len(migrations) : i \notin applied /\ ~CompletedNow(i)
      ]_vars

\* A run has failed on the first of two files, a rename of the id column,
\* and has not gone on to the second, which creates the table.
C31_Witness ==
    /\ last.op = "apply_migrations"
    /\ last.res = "err"
    /\ Len(migrations) = 2
    /\ migrations[1].operation = "rename_column"
    /\ migrations[2] = CreatePeople
    /\ executed = <<0, 0>>
    /\ ~schemas["people"].exists

\* The run of the step met the i-th file first and failed on it, so no other
\* file was applied in it.
FailsFirst(i) ==
    /\ last'.op = "apply_migrations"
    /\ last'.res # "ok"
    /\ i \in Pending
    /\ \A j \in Pending : i <= j

\* The i-th file is the first the run of the step would meet.
MeetsFirst(i) ==
    /\ last'.op = "apply_migrations"
    /\ i \in Pending
    /\ \A j \in Pending : i <= j

\* C32: a rename_column of old to new is rejected when old is the id column
\* of the table, and then no shard file and no schema file is modified;
\* otherwise, once it has succeeded, every row that had old holds its former
\* value under new, no row has old, every other field of every row is as it
\* was, and the field map of the schema holds new with the type and pattern
\* old had and holds old no longer.
C32_RenameColumn ==
    [][ \A i \in DOMAIN migrations :
          LET m == migrations[i]
              t == m.table
              before == StoredRows(dirs, t)
              after == StoredRows(dirs', t)
          IN  m.operation = "rename_column" =>
              /\ ( /\ MeetsFirst(i)
                   /\ schemas[t].exists
                   /\ schemas[t].id_column = m.old_field )
                  => ( /\ FailsFirst(i)
                       /\ dirs' = dirs
                       /\ schemas' = schemas )
              /\ RunsOnly(i)
                  => ( /\ schemas[t].id_column # m.old_field
                       /\ DOMAIN after = DOMAIN before
                       /\ \A e \in DOMAIN before :
                            /\ m.old_field \notin DOMAIN after[e]
                            /\ m.old_field \in DOMAIN before[e] =>
                                  /\ m.new_field \in DOMAIN after[e]
                                  /\ after[e][m.new_field] = before[e][m.old_field]
                            /\ m.old_field \notin DOMAIN before[e] => after[e] = before[e]
                            /\ \A f \in DOMAIN before[e] \ {m.old_field, m.new_field} :
                                  f \in DOMAIN after[e] /\ after[e][f] = before[e][f]
                            /\ DOMAIN after[e] \subseteq DOMAIN before[e] \cup {m.new_field}
                       /\ m.old_field \notin DOMAIN schemas'[t].field_names
                       /\ m.new_field \in DOMAIN schemas'[t].field_names
                       /\ schemas'[t].field_names[m.new_field]
                              = schemas[t].field_names[m.old_field]
                       /\ \A f \in DOMAIN schemas[t].field_names \ {m.old_field, m.new_field} :
                              /\ f \in DOMAIN schemas'[t].field_names
                              /\ schemas'[t].field_names[f] = schemas[t].field_names[f] )
      ]_vars

\* A completed run has renamed v to x in the two stored rows and in the
\* schema.
C32_Witness ==
    /\ last.op = "apply_migrations" /\ last.res = "ok"
    /\ \E i \in DOMAIN migrations :
          /\ migrations[i].operation = "rename_column"
          /\ migrations[i].old_field = "v"
          /\ executed[i] = 1
    /\ Cardinality(DOMAIN StoredRows(dirs, "people")) = 2
    /\ \A e \in DOMAIN StoredRows(dirs, "people") :
          /\ "v" \notin DOMAIN StoredRows(dirs, "people")[e]
          /\ StoredRows(dirs, "people")[e].x = <<DataNumber(0), "m">>
    /\ DOMAIN schemas["people"].field_names = {"id", "x"}

\* C33: a drop_column of a field is rejected when the field is the id column
\* of the table, and then no shard file and no schema file is modified;
\* otherwise, once it has succeeded, no row of any shard file and no entry of
\* the schema's field map has the field, and every other field of every row
\* and of the schema is as it was.
C33_DropColumn ==
    [][ \A i \in DOMAIN migrations :
          LET m == migrations[i]
              t == m.table
              before == StoredRows(dirs, t)
              after == StoredRows(dirs', t)
          IN  m.operation = "drop_column" =>
              /\ ( /\ MeetsFirst(i)
                   /\ schemas[t].exists
                   /\ schemas[t].id_column = m.field )
                  => ( /\ FailsFirst(i)
                       /\ dirs' = dirs
                       /\ schemas' = schemas )
              /\ RunsOnly(i)
                  => ( /\ schemas[t].id_column # m.field
                       /\ DOMAIN after = DOMAIN before
                       /\ \A e \in DOMAIN before :
                            /\ DOMAIN after[e] = DOMAIN before[e] \ {m.field}
                            /\ \A f \in DOMAIN after[e] : after[e][f] = before[e][f]
                       /\ DOMAIN schemas'[t].field_names
                              = DOMAIN schemas[t].field_names \ {m.field}
                       /\ \A f \in DOMAIN schemas'[t].field_names :
                              schemas'[t].field_names[f] = schemas[t].field_names[f]
                       /\ schemas'[t].id_column = schemas[t].id_column
                       /\ schemas'[t].name = schemas[t].name )
      ]_vars

\* A completed run has dropped v from the two stored rows and from the
\* schema.
C33_Witness ==
    /\ last.op = "apply_migrations" /\ last.res = "ok"
    /\ \E i \in DOMAIN migrations :
          /\ migrations[i].operation = "drop_column"
          /\ migrations[i].field = "v"
          /\ executed[i] = 1
    /\ Cardinality(DOMAIN StoredRows(dirs, "people")) = 2
    /\ \A e \in DOMAIN StoredRows(dirs, "people") :
          DOMAIN StoredRows(dirs, "people")[e] = {"id"}
    /\ DOMAIN schemas["people"].field_names = {"id"}

\* C34: an add_column whose default is missing, or is no string, number or
\* boolean, fails whether the table holds rows that lack the field or holds
\* no row at all: the migration is not recorded as applied and the schema
\* does not gain the field.
C34_UnsupportedDefaultFails ==
    [][ \A i \in DOMAIN migrations :
          LET m == migrations[i]
              t == m.table
          IN  ( /\ m.operation = "add_column"
                /\ ~default_supported(m.default)
                /\ MeetsFirst(i)
                /\ schemas[t].exists
                /\ m.field \notin DOMAIN schemas[t].field_names )
              => ( /\ FailsFirst(i)
                   /\ i \notin applied'
                   /\ m.field \notin DOMAIN schemas'[t].field_names )
      ]_vars

-----------------------------------------------------------------------------
(* Properties of the ordering of values, under SpecOrder.                  *)

\* C35: for two NUMBER values a < b holds under the ordering of the value
\* type iff a is numerically less than b, for two STRING values iff a is
\* lexicographically less than b, and of two values of different tags none
\* of <, <=, >, >= and == holds.
C35_NaturalOrder ==
    last.op = "calculate" =>
        LET cmp == last.arg[1]
            a == last.arg[2]
            b == last.arg[3]
        IN  /\ ( cmp = "LESS" /\ a.tag = "NUMBER" /\ b.tag = "NUMBER" )
                   => ( last.res = "true" <=> a.n < b.n )
            /\ ( cmp = "LESS" /\ a.tag = "STRING" /\ b.tag = "STRING" )
                   => ( last.res = "true" <=> StringRank(a.s) < StringRank(b.s) )
            /\ a.tag # b.tag => last.res = "false"

-----------------------------------------------------------------------------
(* Properties of the comparators, under SpecCmp.                           *)

\* The operator of the builder that stands for a comparator of get_where.
OperatorOf(cmp) ==
    CASE cmp = "EQUAL" -> "Eq"
      [] cmp = "LESS" -> "Lt"
      [] cmp = "LESSEQ" -> "Lte"
      [] cmp = "GREATER" -> "Gt"
      [] cmp = "GTEQ" -> "Gte"

\* The place of a NUMBER or a STRING in the natural order of its tag.
ValueKey(d) == IF d.tag = "NUMBER" THEN d.n ELSE StringRank(d.s)

\* The stored value stands to v as the comparator says, in the natural order.
NaturallyHolds(cmp, stored, v) ==
    /\ stored.tag = v.tag
    /\ CASE cmp = "EQUAL" -> ValueKey(stored) = ValueKey(v)
         [] cmp = "LESS" -> ValueKey(stored) < ValueKey(v)
         [] cmp = "LESSEQ" -> ValueKey(stored) <= ValueKey(v)
         [] cmp = "GREATER" -> ValueKey(stored) > ValueKey(v)
         [] cmp = "GTEQ" -> ValueKey(stored) >= ValueKey(v)

\* The stored rows a comparator selects in the natural order.
NaturalHits(D, q) ==
    {row \in RowsIn(D, q.tablename) :
        /\ q.fieldname \in DOMAIN row
        /\ NaturallyHolds(q.cmp, row[q.fieldname][1], q.fieldvalue)}

\* C36: on NUMBER and STRING fields get_where(table, f, v, true, cmp) returns
\* the rows that query(table).where_(f, op, v).execute() returns, op being
\* the operator for cmp, and these are the rows whose stored value stands to
\* v as cmp says in the natural order: LESS selects the rows whose value is
\* less than v.
C36_ComparatorsAgree ==
    [][ ( last'.op = "get_where" /\ last'.arg.multi )
        => LET q == last'.arg
               got == {last'.out[i][2] : i \in 1..Len(last'.out)}
               qb == QueryBuilder(q.tablename,
                                  <<Cond("And", q.fieldname, OperatorOf(q.cmp),
                                         q.fieldvalue)>>, -1, "", TRUE)
           IN  /\ \A keys \in ScanOrders(dirs, q.tablename) :
                      got = Returned(execute(dirs, qb, keys))
               /\ got = NaturalHits(dirs, q)
      ]_vars

\* get_where with LESS and the value 1 has returned a row with v = 0 while
\* rows with v = 1 or v = 2 are stored.
C36_Witness ==
    /\ last.op = "get_where"
    /\ last.arg.cmp = "LESS" /\ last.arg.fieldname = "v"
    /\ Len(last.out) = 1
    /\ last.out[1][2].v[1] = DataNumber(0)
    /\ Cardinality(RowsIn(dirs, "people")) = 2

-----------------------------------------------------------------------------
(* Properties of the frame of an update, under Spec.                       *)

\* C37: update_row_by_id and update_field_by_id on the raw id X leave every
\* stored row other than the row of X present and unchanged, also when the
\* update sets the id column to a value whose numeric id another row holds.
C37_UpdateFrame ==
    [][ last'.op \in {"update_row_by_id", "update_field_by_id"}
        => \A k \in StoredIds(dirs, last'.table) \ {string_to_numerical_uuid(last'.id)} :
              /\ k \in StoredIds(dirs', last'.table)
              /\ get_all(dirs', last'.table)[k] = get_all(dirs, last'.table)[k]
      ]_vars

-----------------------------------------------------------------------------
(* Properties of the rows after a migration, under SpecSchema.             *)

\* The row has the fields of the schema and no other, each value with the
\* declared tag.
TagsConform(row, types) ==
    /\ DOMAIN row = DOMAIN types.field_names
    /\ \A f \in DOMAIN row : row[f][1].tag = types.field_names[f][1]

\* C38: if every stored row of a table conforms to its schema before a
\* successful add_column, rename_column or drop_column, every stored row
\* conforms to the schema the migration leaves; the value an add_column puts
\* in has the tag of its datatype.
C38_MigrationsKeepConformance ==
    [][ \A i \in DOMAIN migrations :
          LET m == migrations[i]
              t == m.table
              before == StoredRows(dirs, t)
              after == StoredRows(dirs', t)
          IN  ( /\ RunsOnly(i)
                /\ m.operation \in {"add_column", "rename_column", "drop_column"}
                /\ \A e \in DOMAIN before : TagsConform(before[e], schemas[t]) )
              => \A e \in DOMAIN after : TagsConform(after[e], schemas'[t])
      ]_vars

-----------------------------------------------------------------------------
(* Properties of a deleted table, under SpecMig.                           *)

\* A delete_table for the table has completed and its directory has been
\* absent since.
Deleted(t) ==
    /\ ~dirs[t].exists
    /\ \E i \in DOMAIN migrations :
          /\ migrations[i].operation = "delete_table"
          /\ migrations[i].table = t
          /\ executed[i] > 0

\* C39: once a delete_table for a table has been applied, and until a
\* create_table for it is, add_row and add_rows to the table fail and the
\* directory of the table stays absent.
C39_DeletedStaysDeleted ==
    [][ \A t \in Tables :
          ( /\ Deleted(t)
            /\ last'.op \in {"add_row", "add_rows"}
            /\ last'.table = t )
          => ( last'.res # "ok" /\ ~dirs'[t].exists )
      ]_vars

-----------------------------------------------------------------------------
(* Properties of the insert wrapper, under SpecCheck.                      *)

\* C40: whenever DATABASE::insert(table, row) returns Some(()), get_by_id
\* for the value of the row's id column returns that row; a row that
\* validation refuses, or a table that is missing, is not reported as an
\* insert that succeeded.
C40_InsertReportsStored ==
    ( last.op = "insert" /\ last.res = "ok" )
        => /\ HasRawId(schemas, last.table, last.row)
           /\ get_by_id(dirs, last.table, RawIdOf(schemas, last.table, last.row))
                  = Some(last.row)

====
